---- MODULE Spec2Model ----
(***************************************************************************)
(* A model of searcharray: the roaringish position encoder                 *)
(* (searcharray/utils/roaringish.py), the 16-bit-window bigram matcher     *)
(* (searcharray/phrase/middle_out.py) and the PostingsArray column         *)
(* (searcharray/postings.py and the top-level postings.py).                *)
(*                                                                         *)
(* A uint64 is modelled as the set of its set bits (a subset of 0..63), so *)
(* that shifts drop the bits they push out, masks are intersections and    *)
(* an overflow of one field lands in the neighbouring field exactly as it  *)
(* does in numpy.                                                          *)
(***************************************************************************)
EXTENDS Integers, Sequences, FiniteSets, TLC

VARIABLES
    key_bits,       \* RoaringishEncoder.key_bits of the encoder under test
    payload,        \* encode's input: a sequence of <<key, position>> pairs
    encoded,        \* the uint64 array last returned by encode
    enc_result,     \* what the last encoder operation returned or raised
    lhs_posns,      \* inner_bigram_match: <<doc, position>> pairs of the lhs term
    rhs_posns,      \* inner_bigram_match: <<doc, position>> pairs of the rhs term
    bigram_result,  \* what inner_bigram_match returned
    tokenized,      \* the tokenized documents the column was indexed from
    column,         \* the PostingsArray: term_dict, term_freqs, posns, posns_lookup, avg_doc_length
    query_result    \* what the last query on the column returned or raised

encoder_vars == <<key_bits, payload, encoded, enc_result>>
bigram_vars == <<lhs_posns, rhs_posns, bigram_result>>
column_vars == <<tokenized, column, query_result>>
vars == <<encoder_vars, bigram_vars, column_vars>>

(***************************************************************************)
(* Bounds of the model.                                                    *)
(***************************************************************************)
MaxPairs == 3       \* the longest <<key, position>> input given to encode
MaxBigramPosns == 3 \* the positions of both terms given to inner_bigram_match
MaxTokens == 4      \* the tokens of all documents of a queried column
MaxRunDocLen == 7   \* the tokens of the single document queried for a repeated term
MaxPhraseDocLen == 3 \* the tokens of a document queried for a three-term phrase
MaxWords == 2        \* the words of an encoded array handed to intersect
MaxStaged == 3       \* the positions staged in a PosnBitArrayBuilder

(***************************************************************************)
(* uint64 arithmetic on bit sets.                                          *)
(***************************************************************************)
Bits64 == 64

AllBits == 0 .. (Bits64 - 1)

RECURSIVE Pow2(_)
Pow2(n) == IF n = 0 THEN 1 ELSE 2 * Pow2(n - 1)

\* np.uint64(n) for a non-negative integer n
RECURSIVE U64(_)
U64(n) == IF n = 0 THEN {}
          ELSE (IF n % 2 = 1 THEN {0} ELSE {}) \cup {b + 1 : b \in U64(n \div 2)}

\* int(w) for a uint64 w
RECURSIVE ToInt(_)
ToInt(w) == IF w = {} THEN 0
            ELSE LET b == CHOOSE x \in w : TRUE IN Pow2(b) + ToInt(w \ {b})

Shl(w, k) == {b + k : b \in w} \cap AllBits
Shr(w, k) == {b - k : b \in {x \in w : x >= k}}
BitAnd(a, b) == a \cap b
BitOr(a, b) == a \cup b
BitNot(a) == AllBits \ a

\* a + b modulo 2^64: the carry into bit i is decided by the bits below i
RECURSIVE CarryInto(_, _, _)
CarryInto(a, b, i) ==
    IF i = 0 THEN FALSE
    ELSE LET x == (i - 1) \in a
             y == (i - 1) \in b
         IN IF x /\ y THEN TRUE
            ELSE IF x \/ y THEN CarryInto(a, b, i - 1)
            ELSE FALSE

\* the same sum bit by bit from bit 0, the carry handed upwards
RECURSIVE RippleAdd(_, _, _, _)
RippleAdd(a, b, i, carry) ==
    IF i = Bits64 THEN {}
    ELSE LET x == i \in a
             y == i \in b
         IN (IF (x # y) # carry THEN {i} ELSE {})
            \cup RippleAdd(a, b, i + 1, (x /\ y) \/ (carry /\ (x \/ y)))

Add(a, b) == RippleAdd(a, b, 0, FALSE)
Sub(a, b) == Add(a, Add(BitNot(b), U64(1)))

\* a < b as unsigned integers
Less(a, b) == a # b /\ LET d == (a \ b) \cup (b \ a)
                       IN (CHOOSE x \in d : \A y \in d : y <= x) \in b

n_msb_mask(n) == Add(BitNot(Shl(U64(1), Bits64 - n)), U64(1))

(***************************************************************************)
(* Sequence helpers standing for numpy indexing.                           *)
(***************************************************************************)
\* arr[mask] for a boolean mask given as the set of kept indices
RECURSIVE Take(_, _)
Take(s, keep) == IF s = <<>> THEN <<>>
                 ELSE LET n == Len(s)
                          front == Take(SubSeq(s, 1, n - 1), keep)
                      IN IF n \in keep THEN Append(front, s[n]) ELSE front

RECURSIVE OrAll(_)
OrAll(s) == IF s = <<>> THEN {} ELSE BitOr(s[1], OrAll(Tail(s)))

(***************************************************************************)
(* RoaringishEncoder                                                       *)
(***************************************************************************)
RoaringishEncoder(kb) ==
    LET payload_bits == Bits64 - kb
        msb_bits == payload_bits \div 2
        lsb_bits == payload_bits - msb_bits
        key_mask == n_msb_mask(kb)
        msb_mask == BitAnd(n_msb_mask(msb_bits + kb), BitNot(key_mask))
        lsb_mask == Sub(Shl(U64(1), lsb_bits), U64(1))
    IN [key_bits |-> kb,
        payload_msb_bits |-> msb_bits,
        payload_lsb_bits |-> lsb_bits,
        key_mask |-> key_mask,
        payload_msb_mask |-> msb_mask,
        payload_lsb_mask |-> lsb_mask,
        header_mask |-> BitOr(key_mask, msb_mask),
        max_payload |-> Pow2(lsb_bits) - 1]

\* validate_payload: TRUE when it raises ValueError
validate_payload(enc, posns) == \E i \in 1 .. Len(posns) : posns[i] > enc.max_payload

\* the uint64 built for one <<key, position>> pair before the groups are reduced
encode_cols(enc, pair) ==
    BitOr(Shl(U64(pair[2] \div enc.payload_lsb_bits), enc.payload_msb_bits),
          Shl(U64(pair[1]), Bits64 - enc.key_bits))

encode_value(enc, pair) == Shl(U64(1), pair[2] % enc.payload_lsb_bits)

\* np.nonzero(np.diff(cols))[0] + 1 with 0 in front, as 1-based indices
change_indices(cols) ==
    {1} \cup {i \in 2 .. Len(cols) : cols[i] # cols[i - 1]}

\* a reduction that keeps the first word of every group instead of OR-ing the group
reduceat_first(arr, indices) ==
    LET RECURSIVE build(_)
        build(i) == IF i > Len(arr) THEN <<>>
                    ELSE IF i \in indices THEN <<arr[i]>> \o build(i + 1)
                    ELSE build(i + 1)
    IN build(1)

\* np.bitwise_or.reduceat(arr, indices)
reduceat(arr, indices) ==
    LET starts == {i \in indices : TRUE}
        last(i) == IF \E j \in starts : j > i
                   THEN (CHOOSE j \in starts : j > i /\ \A k \in starts : k > i => j <= k) - 1
                   ELSE Len(arr)
        group(i) == OrAll(SubSeq(arr, i, last(i)))
        RECURSIVE build(_)
        build(i) == IF i > Len(arr) THEN <<>>
                    ELSE IF i \in starts THEN <<group(i)>> \o build(i + 1)
                    ELSE build(i + 1)
    IN build(1)

encode(enc, pairs) ==
    LET cols == [i \in 1 .. Len(pairs) |-> encode_cols(enc, pairs[i])]
        full == [i \in 1 .. Len(pairs) |-> BitOr(cols[i], encode_value(enc, pairs[i]))]
    IN IF Len(pairs) = 0 THEN <<>> ELSE reduceat(full, change_indices(cols))

keys(enc, w) == Shr(w, Bits64 - enc.key_bits)
payload_msb(enc, w) == Shr(BitAnd(w, enc.payload_msb_mask), enc.payload_msb_bits)
payload_lsb(enc, w) == BitAnd(w, enc.payload_lsb_mask)
header(enc, w) == BitAnd(w, BitNot(enc.payload_lsb_mask))

\* decode(encoded, get_keys=True): one <<key, position>> row per set LSB of each
\* word, sorted by key then position, then grouped by key
decode_rows(enc, arr) ==
    {<<i, bit>> \in (1 .. Len(arr)) \X (0 .. (enc.payload_lsb_bits - 1)) : bit \in arr[i]}

decode_key(enc, arr, row) ==
    ToInt(Shr(BitAnd(arr[row[1]], enc.key_mask), Bits64 - enc.key_bits))

\* a decode that takes the window index for the position of the window's first bit
decode_payload_unscaled(enc, arr, row) ==
    row[2] + ToInt(Shr(BitAnd(arr[row[1]], enc.payload_msb_mask), enc.payload_msb_bits))

decode_payload(enc, arr, row) ==
    row[2] + ToInt(Shr(BitAnd(arr[row[1]], enc.payload_msb_mask), enc.payload_msb_bits))
             * enc.payload_lsb_bits

RECURSIVE sorted_payloads(_, _, _)
sorted_payloads(enc, arr, rows) ==
    IF rows = {} THEN <<>>
    ELSE LET r == CHOOSE x \in rows :
                      \A y \in rows : decode_payload(enc, arr, x) <= decode_payload(enc, arr, y)
         IN <<decode_payload(enc, arr, r)>> \o sorted_payloads(enc, arr, rows \ {r})

RECURSIVE grouped(_, _, _, _)
grouped(enc, arr, rows, ks) ==
    IF ks = {} THEN <<>>
    ELSE LET k == CHOOSE x \in ks : \A y \in ks : x <= y
             mine == {r \in rows : decode_key(enc, arr, r) = k}
         IN <<(<<k, sorted_payloads(enc, arr, mine)>>)>> \o grouped(enc, arr, rows, ks \ {k})

decode(enc, arr) ==
    LET rows == decode_rows(enc, arr)
    IN grouped(enc, arr, rows, {decode_key(enc, arr, r) : r \in rows})

\* numpy's a & b on boolean arrays: equal lengths, or one of length 1 broadcast;
\* anything else raises ValueError
broadcast_and(a, b) ==
    IF Len(a) = Len(b)
    THEN [raised |-> FALSE, val |-> [i \in 1 .. Len(a) |-> a[i] /\ b[i]]]
    ELSE IF Len(a) = 1
    THEN [raised |-> FALSE, val |-> [i \in 1 .. Len(b) |-> a[1] /\ b[i]]]
    ELSE IF Len(b) = 1
    THEN [raised |-> FALSE, val |-> [i \in 1 .. Len(a) |-> a[i] /\ b[1]]]
    ELSE [raised |-> TRUE, val |-> <<>>]

\* numpy's arr[mask] for a boolean array: IndexError unless the lengths agree
bool_index(arr, mask) ==
    IF Len(mask) # Len(arr) THEN [raised |-> TRUE, val |-> <<>>]
    ELSE [raised |-> FALSE, val |-> Take(arr, {i \in 1 .. Len(arr) : mask[i]})]

None == -1

\* slice(encoded, keys, max_payload, min_payload); keys is the set of wanted keys
slice(enc, arr, wanted, max_payload, min_payload) ==
    LET idx_enc == {i \in 1 .. Len(arr) : ToInt(keys(enc, arr[i])) \in wanted}
        picked == Take(arr, idx_enc)
        ones == [i \in 1 .. Len(arr) |-> TRUE]
        bad_min == min_payload # None /\ min_payload % enc.payload_lsb_bits # 0
        bad_max == max_payload # None
                   /\ max_payload % enc.payload_lsb_bits # enc.payload_lsb_bits - 1
        gt_min_payload ==
            IF min_payload = None THEN ones
            ELSE [i \in 1 .. Len(picked) |->
                    ToInt(payload_msb(enc, picked[i])) >= min_payload \div enc.payload_lsb_bits]
        lt_max_payload ==
            IF max_payload = None THEN ones
            ELSE [i \in 1 .. Len(picked) |->
                    ToInt(payload_msb(enc, picked[i])) <= max_payload \div enc.payload_lsb_bits]
        both == broadcast_and(lt_max_payload, gt_min_payload)
    IN IF max_payload = None /\ min_payload = None
       THEN [raised |-> FALSE, val |-> picked]
       ELSE IF bad_min \/ bad_max \/ both.raised THEN [raised |-> TRUE, val |-> <<>>]
       ELSE bool_index(arr, both.val)

(***************************************************************************)
(* The encoder under test: encode, then decode / slice / validate_payload  *)
(***************************************************************************)
DEFAULT_KEY_BITS == 28

\* the encoders exercised: the default 28/18/18 layout and a 60/2/2 layout whose
\* field limits are small enough to be crossed
EncoderKeyBits == {DEFAULT_KEY_BITS, 60}

Encoders == [kb \in EncoderKeyBits |-> RoaringishEncoder(kb)]

KeyPool == {0, 1}

\* positions around the window and capacity limits of each layout
PosnPool(kb) == IF kb = DEFAULT_KEY_BITS THEN {0, 17, 18, 4718591, 4718592}
                ELSE {0, 1, 3, 7, 8, 16}

RECURSIVE SubsetsUpTo(_, _)
SubsetsUpTo(S, k) ==
    IF k = 0 THEN {{}}
    ELSE LET smaller == SubsetsUpTo(S, k - 1)
         IN smaller \cup {s \cup {x} : s \in smaller, x \in S}

PairLess(p, q) == p[1] < q[1] \/ (p[1] = q[1] /\ p[2] < q[2])

RECURSIVE SortPairs(_)
SortPairs(S) ==
    IF S = {} THEN <<>>
    ELSE LET m == CHOOSE x \in S : \A y \in S : x = y \/ PairLess(x, y)
         IN <<m>> \o SortPairs(S \ {m})

\* every input sorted by key with strictly ascending positions within a key
SortedInputs(kb) == {SortPairs(S) : S \in SubsetsUpTo(KeyPool \X PosnPool(kb), MaxPairs)}

BigramIdle == /\ lhs_posns = <<>>
              /\ rhs_posns = <<>>
              /\ bigram_result = [op |-> "new"]

ColumnIdle == /\ tokenized = <<>>
              /\ column = <<>>
              /\ query_result = [op |-> "new"]

InitEncoder ==
    /\ key_bits \in EncoderKeyBits
    /\ payload \in SortedInputs(key_bits)
    /\ encoded = <<>>
    /\ enc_result = [op |-> "new"]
    /\ BigramIdle
    /\ ColumnIdle

\* encode(payload, keys): no statement of encode raises
Encode ==
    /\ enc_result.op = "new"
    /\ encoded' = encode(Encoders[key_bits], payload)
    /\ enc_result' = [op |-> "encode", raised |-> FALSE]
    /\ UNCHANGED <<key_bits, payload, bigram_vars, column_vars>>

ValidatePayload ==
    /\ enc_result.op # "new"
    /\ enc_result' = [op |-> "validate_payload",
                      raised |-> validate_payload(Encoders[key_bits],
                                                  [i \in 1 .. Len(payload) |-> payload[i][2]])]
    /\ UNCHANGED <<key_bits, payload, encoded, bigram_vars, column_vars>>

Decode ==
    /\ enc_result.op # "new"
    /\ enc_result' = [op |-> "decode", raised |-> FALSE,
                      val |-> decode(Encoders[key_bits], encoded)]
    /\ UNCHANGED <<key_bits, payload, encoded, bigram_vars, column_vars>>

\* the payload bounds tried: none, the first window, from the second window on,
\* and a min_payload that is no multiple of payload_lsb_bits
SliceBounds(enc) ==
    {<<None, None>>,
     <<enc.payload_lsb_bits - 1, None>>,
     <<enc.payload_lsb_bits - 1, 0>>,
     <<None, enc.payload_lsb_bits>>,
     <<None, 1>>}

Slice(wanted, bounds) ==
    /\ enc_result.op # "new"
    /\ LET r == slice(Encoders[key_bits], encoded, wanted, bounds[1], bounds[2])
       IN enc_result' = [op |-> "slice", raised |-> r.raised, val |-> r.val,
                         keys |-> wanted, max_payload |-> bounds[1],
                         min_payload |-> bounds[2]]
    /\ UNCHANGED <<key_bits, payload, encoded, bigram_vars, column_vars>>

NextEncoder ==
    \/ Encode
    \/ ValidatePayload
    \/ Decode
    \/ \E wanted \in SUBSET KeyPool \ {{}}, bounds \in SliceBounds(Encoders[key_bits]) :
          Slice(wanted, bounds)

SpecEncoder == InitEncoder /\ [][NextEncoder]_vars

(***************************************************************************)
(* Claims about the encoder                                                *)
(***************************************************************************)
\* n < 2^e; every integer of the model is below 2^31
BelowPow2(n, e) == e >= 31 \/ n < Pow2(e)

InputKeys == {payload[i][1] : i \in 1 .. Len(payload)}
InputPosns(k) == {payload[i][2] : i \in {j \in 1 .. Len(payload) : payload[j][1] = k}}

RECURSIVE AscendingSeq(_)
AscendingSeq(S) == IF S = {} THEN <<>>
                   ELSE LET m == CHOOSE x \in S : \A y \in S : x <= y
                        IN <<m>> \o AscendingSeq(S \ {m})

\* the input grouped by key: one <<key, ascending positions>> entry per input key
RECURSIVE GroupByKey(_)
GroupByKey(ks) ==
    IF ks = {} THEN <<>>
    ELSE LET k == CHOOSE x \in ks : \A y \in ks : x <= y
         IN <<(<<k, AscendingSeq(InputPosns(k))>>)>> \o GroupByKey(ks \ {k})

\* the positions whose window index fits the payload_msb field
FitsMsbField(enc) ==
    \A i \in 1 .. Len(payload) :
        payload[i][2] < enc.payload_lsb_bits * Pow2(enc.payload_msb_bits)

InputHeader(enc, pair) == <<pair[1], pair[2] \div enc.payload_lsb_bits>>
WordHeader(enc, w) == <<ToInt(keys(enc, w)), ToInt(payload_msb(enc, w))>>

C8_EncodeRejectsOverflow ==
    LET enc == Encoders[key_bits]
    IN (enc_result.op = "encode"
        /\ \E i \in 1 .. Len(payload) :
               ~BelowPow2(payload[i][2], enc.payload_msb_bits + enc.payload_lsb_bits))
       => enc_result.raised

\* C9: slice returns exactly the words of encoded, in order, whose key is in keys
\* and whose position window lies within the given bounds, for every keys array
\* that selects documents of encoded, also when it selects only some of them.
C9_SliceSelectsKeysAndWindows ==
    LET enc == Encoders[key_bits]
        lsb == enc.payload_lsb_bits
        lo == enc_result.min_payload
        hi == enc_result.max_payload
        wanted(i) == /\ ToInt(keys(enc, encoded[i])) \in enc_result.keys
                     /\ lo # None => ToInt(payload_msb(enc, encoded[i])) >= lo \div lsb
                     /\ hi # None => ToInt(payload_msb(enc, encoded[i])) <= hi \div lsb
        present == {ToInt(keys(enc, encoded[i])) : i \in 1 .. Len(encoded)}
    IN (enc_result.op = "slice"
        /\ FitsMsbField(enc)
        /\ present \cap enc_result.keys # {}
        /\ (lo # None => lo % lsb = 0)
        /\ (hi # None => hi % lsb = lsb - 1))
       => /\ ~enc_result.raised
          /\ enc_result.val = Take(encoded, {i \in 1 .. Len(encoded) : wanted(i)})

(***************************************************************************)
(* middle_out.py: 16-bit position windows and inner_bigram_match           *)
(***************************************************************************)
\* validate_posns: TRUE when it raises ValueError
validate_posns(pairs) == \E i \in 1 .. Len(pairs) : pairs[i][2] >= 65536

\* encode_posns(posns, doc_ids) on <<doc_id, position>> pairs sorted by both
encode_posns_cols(pair) == BitOr(Shl(U64(pair[2] \div 16), 16), Shl(U64(pair[1]), 32))

encode_posns(pairs) ==
    LET cols == [i \in 1 .. Len(pairs) |-> encode_posns_cols(pairs[i])]
        full == [i \in 1 .. Len(pairs) |-> BitOr(cols[i], Shl(U64(1), pairs[i][2] % 16))]
    IN IF validate_posns(pairs) THEN [raised |-> TRUE, val |-> <<>>]
       ELSE IF Len(pairs) = 0 THEN [raised |-> FALSE, val |-> <<>>]
       ELSE [raised |-> FALSE, val |-> reduceat(full, change_indices(cols))]

\* decode_posns: <<doc_id, positions>> per run of equal doc ids, the positions
\* listed bit by bit
decode_posns_doc(arr, doc) ==
    LET mine == {i \in 1 .. Len(arr) : Shr(arr[i], 32) = doc}
        RECURSIVE words(_, _)
        words(bit, i) ==
            IF i > Len(arr) THEN <<>>
            ELSE IF i \in mine /\ bit \in arr[i]
            THEN <<bit + ToInt(Shr(BitAnd(arr[i], 16 .. 31), 16)) * 16>> \o words(bit, i + 1)
            ELSE words(bit, i + 1)
        RECURSIVE bits(_)
        bits(bit) == IF bit > 15 THEN <<>> ELSE words(bit, 1) \o bits(bit + 1)
    IN <<ToInt(doc), bits(0)>>

decode_posns(arr) ==
    LET RECURSIVE docs(_)
        docs(i) == IF i > Len(arr) THEN <<>>
                   ELSE IF i = 1 \/ Less(Shr(arr[i - 1], 32), Shr(arr[i], 32))
                   THEN <<decode_posns_doc(arr, Shr(arr[i], 32))>> \o docs(i + 1)
                   ELSE docs(i + 1)
    IN docs(1)

\* intersect_msbs: the words of lhs and rhs whose 48 MSBs occur in both arrays
intersect_msbs(lhs, rhs) ==
    LET lhs_idx == {i \in 1 .. Len(lhs) : \E j \in 1 .. Len(rhs) : Shr(lhs[i], 16) = Shr(rhs[j], 16)}
        rhs_idx == {j \in 1 .. Len(rhs) : \E i \in 1 .. Len(lhs) : Shr(lhs[i], 16) = Shr(rhs[j], 16)}
    IN <<Take(lhs, lhs_idx), Take(rhs, rhs_idx)>>

\* inner_bigram_match(lhs, rhs): the count and the rhs words holding the matched bits
inner_bigram_match(lhs_in, rhs_in) ==
    LET both == intersect_msbs(lhs_in, rhs_in)
        lhs == both[1]
        rhs == both[2]
        matches(i) == {bit \in 1 .. 14 : bit \in lhs[i] /\ (bit + 1) \in rhs[i]}
        rhs_next(i) == BitOr(BitAnd(rhs[i], 16 .. 63), {bit + 1 : bit \in matches(i)})
        RECURSIVE count(_)
        count(i) == IF i > Len(rhs) THEN 0 ELSE Cardinality(matches(i)) + count(i + 1)
    IN IF Len(lhs) # Len(rhs) THEN [raised |-> TRUE, count |-> 0, rhs_next |-> <<>>]
       ELSE [raised |-> FALSE,
             count |-> count(1),
             rhs_next |-> Take([i \in 1 .. Len(rhs) |-> rhs_next(i)],
                               {i \in 1 .. Len(rhs) : matches(i) # {}})]

(***************************************************************************)
(* The bigram matcher under test: encode_posns on both terms, then         *)
(* inner_bigram_match / decode_posns                                       *)
(***************************************************************************)
BigramDocs == {0, 1}

\* positions at both ends of the first window, the start of the second one and
\* the first position validate_posns rejects
BigramPosnPool == {0, 1, 2, 15, 16, 65536}

BigramInputs(n) == {SortPairs(S) : S \in SubsetsUpTo(BigramDocs \X BigramPosnPool, n)}

EncoderIdle == /\ key_bits = DEFAULT_KEY_BITS
               /\ payload = <<>>
               /\ encoded = <<>>
               /\ enc_result = [op |-> "new"]

InitBigram ==
    /\ \E n \in 0 .. MaxBigramPosns :
          /\ lhs_posns \in BigramInputs(n)
          /\ rhs_posns \in BigramInputs(MaxBigramPosns - n)
    /\ bigram_result = [op |-> "new"]
    /\ EncoderIdle
    /\ ColumnIdle

EncodePosns ==
    /\ bigram_result.op = "new"
    /\ LET l == encode_posns(lhs_posns)
           r == encode_posns(rhs_posns)
       IN bigram_result' = [op |-> "encode_posns", raised |-> l.raised \/ r.raised,
                            lhs |-> l.val, rhs |-> r.val]
    /\ UNCHANGED <<lhs_posns, rhs_posns, encoder_vars, column_vars>>

InnerBigramMatch ==
    /\ bigram_result.op = "encode_posns"
    /\ ~bigram_result.raised
    /\ LET m == inner_bigram_match(bigram_result.lhs, bigram_result.rhs)
       IN bigram_result' = [op |-> "inner_bigram_match", raised |-> m.raised,
                            count |-> m.count, rhs_next |-> m.rhs_next]
    /\ UNCHANGED <<lhs_posns, rhs_posns, encoder_vars, column_vars>>

DecodePosns ==
    /\ bigram_result.op = "encode_posns"
    /\ ~bigram_result.raised
    /\ bigram_result' = [op |-> "decode_posns", raised |-> FALSE,
                         lhs |-> decode_posns(bigram_result.lhs),
                         rhs |-> decode_posns(bigram_result.rhs)]
    /\ UNCHANGED <<lhs_posns, rhs_posns, encoder_vars, column_vars>>

NextBigram ==
    \/ EncodePosns
    \/ InnerBigramMatch
    \/ DecodePosns

SpecBigram == InitBigram /\ [][NextBigram]_vars

(***************************************************************************)
(* Claims about the bigram matcher                                         *)
(***************************************************************************)
\* the <<doc, p>> with the lhs term at p and the rhs term at p + 1
AdjacentPairs ==
    {<<d, p>> \in BigramDocs \X BigramPosnPool :
        /\ \E i \in 1 .. Len(lhs_posns) : lhs_posns[i] = <<d, p>>
        /\ \E j \in 1 .. Len(rhs_posns) : rhs_posns[j] = <<d, p + 1>>}

\* those of them that straddle two 16-position windows
BoundaryPairs == {dp \in AdjacentPairs : dp[2] % 16 = 15}

\* C5: a bigram whose first term is at the last bit of one position window and
\* whose second term is at the first bit of the next window of the same
\* document is counted as one adjacent occurrence: when the only adjacent
\* occurrences are such boundary pairs, inner_bigram_match counts each of them.
C5_BoundaryBigramCounted ==
    (bigram_result.op = "inner_bigram_match" /\ AdjacentPairs = BoundaryPairs)
    => (~bigram_result.raised /\ bigram_result.count = Cardinality(BoundaryPairs))

(***************************************************************************)
(* searcharray/postings.py: indexing.  A document is the token sequence    *)
(* ws_tokenizer returns for it; positions are 0-based.                     *)
(***************************************************************************)
Terms == {"a", "b"}

\* the keys of Counter(token_stream), in the order they are first seen
RECURSIVE counter_keys(_)
counter_keys(doc) ==
    IF doc = <<>> THEN <<>>
    ELSE LET front == counter_keys(SubSeq(doc, 1, Len(doc) - 1))
             t == doc[Len(doc)]
         IN IF \E i \in 1 .. Len(front) : front[i] = t THEN front ELSE Append(front, t)

\* a counter that records a term once however often it occurs
Counter_presence(doc) ==
    [t \in {doc[i] : i \in 1 .. Len(doc)} |-> 1]

\* Counter(token_stream)
Counter(doc) ==
    [t \in {doc[i] : i \in 1 .. Len(doc)} |-> Cardinality({i \in 1 .. Len(doc) : doc[i] = t})]

\* the positions lists built by tokenized_docs
RECURSIVE posns_of(_, _, _)
posns_of(doc, t, posn) ==
    IF posn >= Len(doc) THEN <<>>
    ELSE (IF doc[posn + 1] = t THEN <<posn>> ELSE <<>>) \o posns_of(doc, t, posn + 1)

\* PostingsRow(term_freqs, positions) as yielded by tokenized_docs
tokenized_docs(doc) ==
    [terms |-> counter_keys(doc),
     postings |-> Counter(doc),
     posns |-> [t \in {doc[i] : i \in 1 .. Len(doc)} |-> posns_of(doc, t, 0)]]

\* TermDict: the terms in id order, ids dense from 0
add_term(term_dict, term) ==
    IF \E i \in 1 .. Len(term_dict) : term_dict[i] = term
    THEN [term_dict |-> term_dict,
          id |-> (CHOOSE i \in 1 .. Len(term_dict) : term_dict[i] = term) - 1]
    ELSE [term_dict |-> Append(term_dict, term), id |-> Len(term_dict)]

\* get_term_id: raises TermMissingError for a term never added
get_term_id(term_dict, term) ==
    IF \E i \in 1 .. Len(term_dict) : term_dict[i] = term
    THEN [raised |-> FALSE,
          id |-> (CHOOSE i \in 1 .. Len(term_dict) : term_dict[i] = term) - 1]
    ELSE [raised |-> TRUE, id |-> 0]

\* table[key] += value on a defaultdict(int)
defaultdict_add(table, key, value) ==
    IF key \in DOMAIN table THEN [table EXCEPT ![key] = @ + value]
    ELSE table @@ (key :> value)

\* the body of the loop over tokenized.terms() in _build_index_from_dict
index_term(st, doc_id, row, k) ==
    LET token == row.terms[k]
        added == add_term(st.term_dict, token)
        key == <<doc_id, added.id>>
    IN [st EXCEPT !.term_dict = added.term_dict,
                  !.freqs_table = defaultdict_add(st.freqs_table, key, row.postings[token]),
                  !.posns_lookup = Append(st.posns_lookup, row.posns[token]),
                  !.posns_table = defaultdict_add(st.posns_table, key, Len(st.posns_lookup))]

RECURSIVE index_terms(_, _, _, _)
index_terms(st, doc_id, row, k) ==
    IF k > Len(row.terms) THEN st
    ELSE index_terms(index_term(st, doc_id, row, k), doc_id, row, k + 1)

RECURSIVE index_docs(_, _, _)
index_docs(st, postings, doc_id) ==
    IF doc_id >= Len(postings) THEN st
    ELSE LET row == postings[doc_id + 1]
             counted == [st EXCEPT !.avg_doc_length = @ + Len(row.terms),
                                   !.num_postings = @ + 1]
         IN index_docs(index_terms(counted, doc_id, row, 1), postings, doc_id + 1)

\* a dok_matrix filled from a table, as a dense rows-by-columns function
dok_matrix(table, rows, cols) ==
    [d \in 1 .. rows |->
        [c \in 0 .. (cols - 1) |-> IF <<d - 1, c>> \in DOMAIN table THEN table[<<d - 1, c>>] ELSE 0]]

\* _build_index_from_dict; avg_doc_length is kept as the fraction <<sum, count>>
build_index_from_dict(postings) ==
    LET st == index_docs([term_dict |-> <<>>,
                          freqs_table |-> [x \in {} |-> 0],
                          posns_table |-> [x \in {} |-> 0],
                          posns_lookup |-> <<(<<>>)>>,
                          avg_doc_length |-> 0,
                          num_postings |-> 0], postings, 0)
    IN [term_freqs |-> dok_matrix(st.freqs_table, st.num_postings, Len(st.term_dict)),
        posns |-> dok_matrix(st.posns_table, st.num_postings, Len(st.term_dict)),
        posns_lookup |-> st.posns_lookup,
        term_dict |-> st.term_dict,
        avg_doc_length |-> <<st.avg_doc_length, st.num_postings>>]

\* PostingsArray.index(array): tokenize every document and build the index
PostingsArray_index(array) ==
    build_index_from_dict([i \in 1 .. Len(array) |-> tokenized_docs(array[i])])

(***************************************************************************)
(* searcharray/postings.py: queries.  A token argument is the list of its  *)
(* terms: a plain string is the one-element list _check_token_arg turns    *)
(* into it.  Every query returns what it raised or returned together with  *)
(* the column as the call leaves it.                                       *)
(***************************************************************************)
len(col) == Len(col.term_freqs)

\* the column matrix.copy_col_at(col).todense().flatten()
copy_col_at(mat, c) == [d \in 1 .. Len(mat) |-> mat[d][c]]

RECURSIVE SumSeq(_)
SumSeq(s) == IF s = <<>> THEN 0 ELSE s[1] + SumSeq(Tail(s))

count_nonzero(s) == Cardinality({i \in 1 .. Len(s) : s[i]})

\* term_freq(token) for a single term: zeros when the term is missing
term_freq_single(col, term) ==
    LET found == get_term_id(col.term_dict, term)
    IN IF found.raised THEN [d \in 1 .. len(col) |-> 0]
       ELSE copy_col_at(col.term_freqs, found.id)

\* positions(token, key): the posns_lookup slots of the rows selected by key
positions(col, term, key) ==
    LET found == get_term_id(col.term_dict, term)
        rows == Take([d \in 1 .. len(col) |-> d], {d \in 1 .. len(col) : key[d]})
    IN IF found.raised THEN [raised |-> TRUE, val |-> <<>>]
       ELSE [raised |-> FALSE, val |-> [i \in 1 .. Len(rows) |-> col.posns[rows[i]][found.id]]]

\* and_query(tokens), with match(term) = term_freq(term) > 0 for its single terms
and_query(col, tokens) ==
    [d \in 1 .. len(col) |-> \A k \in 1 .. Len(tokens) : term_freq_single(col, tokens[k])[d] > 0]

pad == 0 - 1000

MaxOf(S) == CHOOSE x \in S : \A y \in S : y <= x

\* a stack whose rows are the stored position arrays themselves, not copies
vstack_views(posns_lookup, slots, width) ==
    LET w == MaxOf({width} \cup {Len(posns_lookup[slots[i] + 1]) : i \in 1 .. Len(slots)})
    IN [rows |-> [i \in 1 .. Len(slots) |->
                    [c \in 1 .. w |-> IF c <= Len(posns_lookup[slots[i] + 1])
                                      THEN posns_lookup[slots[i] + 1][c] ELSE pad]],
        views |-> {<<i, slots[i]>> : i \in 1 .. Len(slots)}]

\* vstack_with_pad(arrays, width): a new matrix, one row per array, padded with
\* pad up to the longest array; views lists the rows that share memory with a
\* stored array, none here
vstack_with_pad(posns_lookup, slots, width) ==
    LET w == MaxOf({width} \cup {Len(posns_lookup[slots[i] + 1]) : i \in 1 .. Len(slots)})
    IN [rows |-> [i \in 1 .. Len(slots) |->
                    [c \in 1 .. w |-> IF c <= Len(posns_lookup[slots[i] + 1])
                                      THEN posns_lookup[slots[i] + 1][c] ELSE pad]],
        views |-> {}]

\* term_mask = np.any(posn_diffs == 1, axis=2) for one document
term_mask(term_row, prior_row) ==
    [i \in 1 .. Len(term_row) |-> \E j \in 1 .. Len(prior_row) : term_row[i] - prior_row[j] = 1]

\* term[~term_mask] = -100: the row written, and the stored arrays the write
\* reaches through the views of the stack
mask_term(term, prior) ==
    [term EXCEPT !.rows = [r \in 1 .. Len(term.rows) |->
        [i \in 1 .. Len(term.rows[r]) |->
            IF term_mask(term.rows[r], prior.rows[r])[i] THEN term.rows[r][i] ELSE 0 - 100]]]

write_through(posns_lookup, term) ==
    [s \in 1 .. Len(posns_lookup) |->
        IF \E v \in term.views : v[2] = s - 1
        THEN LET r == (CHOOSE v \in term.views : v[2] = s - 1)[1]
             IN [c \in 1 .. Len(posns_lookup[s]) |-> term.rows[r][c]]
        ELSE posns_lookup[s]]

\* per_doc_diffs = np.sum(posn_diffs == slop, axis=1) for one document
per_doc_diffs(term_row, prior_row, slop) ==
    [j \in 1 .. Len(prior_row) |->
        Cardinality({i \in 1 .. Len(term_row) : term_row[i] - prior_row[j] = slop})]

\* -np.floor_divide(consecutive_ones, -2)
ceil_half(n) == (n + 1) \div 2

\* a bigram count that only tells whether the bigram occurs
bigram_freq_any(term_row, prior_row, slop, is_same_term) ==
    IF \E j \in 1 .. Len(prior_row) : per_doc_diffs(term_row, prior_row, slop)[j] = slop
    THEN 1 ELSE 0

\* bigram_freqs for one document, the same-term correction included
bigram_freq(term_row, prior_row, slop, is_same_term) ==
    LET satisfies_slop == [j \in 1 .. Len(prior_row) |->
                              per_doc_diffs(term_row, prior_row, slop)[j] = slop]
        consecutive_ones == Cardinality({j \in 1 .. Len(prior_row) - 1 :
                                            satisfies_slop[j] /\ satisfies_slop[j + 1]})
    IN count_nonzero(satisfies_slop)
       - (IF is_same_term THEN ceil_half(consecutive_ones) ELSE 0)

\* the number of selected rows of a boolean mask up to and including row d
rank(mask, d) == Cardinality({e \in 1 .. d : mask[e]})

\* target[mask] = values / target[mask] &= values: numpy takes as many values as
\* the mask selects, or a single value for all of them
assignable(mask, values) == Len(values) = rank(mask, Len(mask)) \/ Len(values) = 1

assigned(mask, values, d) == IF Len(values) = 1 THEN values[1] ELSE values[rank(mask, d)]

\* one pass of the loop over term_posns[1:] in phrase_freq
phrase_step(st, term, slop) ==
    LET is_same_term == term.rows = st.prior.rows
        freqs == [r \in 1 .. Len(term.rows) |->
                     bigram_freq(term.rows[r], st.prior.rows[r], slop, is_same_term)]
        written == mask_term(term, st.prior)
        positive == [r \in 1 .. Len(freqs) |-> freqs[r] > 0]
        fits == assignable(st.mask, positive)
    IN IF st.raised THEN st
       ELSE [prior |-> written,
             mask |-> IF fits
                      THEN [d \in 1 .. Len(st.mask) |->
                               st.mask[d] /\ assigned(st.mask, positive, d)]
                      ELSE st.mask,
             bigram_freqs |-> freqs,
             posns_lookup |-> write_through(st.posns_lookup, written),
             raised |-> ~fits]

RECURSIVE phrase_loop(_, _, _, _)
phrase_loop(st, term_posns, k, slop) ==
    IF k > Len(term_posns) THEN st
    ELSE phrase_loop(phrase_step(st, term_posns[k], slop), term_posns, k + 1, slop)

\* phrase_freq(tokens, slop).  The early return hands back the all-False mask
\* itself (dtype bool, written as zeros); a one-term phrase with a match fails
\* on bigram_freqs = None.
phrase_freq(col, tokens, slop) ==
    LET mask == and_query(col, tokens)
        term_posns == [k \in 1 .. Len(tokens) |->
                          vstack_with_pad(col.posns_lookup,
                                          positions(col, tokens[k], mask).val, 5)]
        st == phrase_loop([prior |-> term_posns[1], mask |-> mask, bigram_freqs |-> <<>>,
                           posns_lookup |-> col.posns_lookup, raised |-> FALSE],
                          term_posns, 2, slop)
        values == Take(st.bigram_freqs, {r \in 1 .. Len(st.bigram_freqs) : st.bigram_freqs[r] > 0})
        after == [col EXCEPT !.posns_lookup = st.posns_lookup]
    IN IF count_nonzero(mask) = 0
       THEN [raised |-> FALSE, dtype |-> "bool", val |-> [d \in 1 .. len(col) |-> 0],
             column |-> col]
       ELSE IF Len(tokens) = 1 \/ st.raised \/ ~assignable(st.mask, values)
       THEN [raised |-> TRUE, dtype |-> "float64", val |-> <<>>, column |-> after]
       ELSE [raised |-> FALSE, dtype |-> "float64",
             val |-> [d \in 1 .. len(col) |->
                         IF st.mask[d] THEN assigned(st.mask, values, d) ELSE 0],
             column |-> after]

\* term_freq(token): a phrase goes to phrase_freq, a term missing from the
\* dictionary gives zeros
term_freq(col, tokens) ==
    IF Len(tokens) # 1 THEN phrase_freq(col, tokens, 1)
    ELSE [raised |-> FALSE, dtype |-> "int", val |-> term_freq_single(col, tokens[1]),
          column |-> col]

\* doc_freq(token) = np.sum(term_freq > 0)
doc_freq(col, term) ==
    LET tf == term_freq(col, <<term>>)
    IN [raised |-> FALSE, val |-> Cardinality({d \in 1 .. Len(tf.val) : tf.val[d] > 0}),
        column |-> tf.column]

\* doc_lengths() = term_freqs.sum(axis=1)
doc_lengths(col) ==
    [raised |-> FALSE,
     val |-> [d \in 1 .. len(col) |->
                 SumSeq([c \in 1 .. Len(col.term_dict) |-> col.term_freqs[d][c - 1]])],
     column |-> col]

\* match(token) = term_freq > 0, the phrase case through phrase_freq
match(col, tokens) ==
    LET tf == IF Len(tokens) # 1 THEN phrase_freq(col, tokens, 1) ELSE term_freq(col, tokens)
    IN [raised |-> tf.raised,
        val |-> IF tf.raised THEN <<>> ELSE [d \in 1 .. Len(tf.val) |-> tf.val[d] > 0],
        column |-> tf.column]

(***************************************************************************)
(* The top-level postings.py: term_freq, doc_freq and match look the term  *)
(* up without a handler for TermMissingError.                              *)
(***************************************************************************)
term_freq_toplevel(col, term) ==
    LET found == get_term_id(col.term_dict, term)
    IN IF found.raised THEN [raised |-> TRUE, val |-> <<>>, column |-> col]
       ELSE [raised |-> FALSE, val |-> copy_col_at(col.term_freqs, found.id), column |-> col]

doc_freq_toplevel(col, term) ==
    LET tf == term_freq_toplevel(col, term)
    IN IF tf.raised THEN tf
       ELSE [raised |-> FALSE, val |-> Cardinality({d \in 1 .. Len(tf.val) : tf.val[d] > 0}),
             column |-> col]

match_toplevel(col, term) ==
    LET tf == term_freq_toplevel(col, term)
    IN IF tf.raised THEN tf
       ELSE [raised |-> FALSE, val |-> [d \in 1 .. Len(tf.val) |-> tf.val[d] > 0],
             column |-> col]

(***************************************************************************)
(* The column under test: indexed from a small corpus, then queried        *)
(***************************************************************************)
MissingTerm == "z"

QueryTerms == Terms \cup {MissingTerm}

\* every two-term phrase over the query terms and one three-term phrase
PhrasePool == {<<s, t>> : s \in QueryTerms, t \in QueryTerms} \cup {<<"a", "b", "a">>}

TokenArgs == {<<t>> : t \in QueryTerms} \cup PhrasePool

RECURSIVE SeqsOfLen(_, _)
SeqsOfLen(S, n) ==
    IF n = 0 THEN {<<>>} ELSE {Append(s, x) : s \in SeqsOfLen(S, n - 1), x \in S}

Docs(n) == UNION {SeqsOfLen(Terms, k) : k \in 0 .. n}

\* columns of one or two documents holding at most MaxTokens tokens
Corpora ==
    {<<d>> : d \in Docs(MaxTokens)}
    \cup {<<d, e>> : d \in Docs(MaxTokens), e \in Docs(MaxTokens)}

InitColumn ==
    /\ tokenized \in {c \in Corpora : SumSeq([d \in 1 .. Len(c) |-> Len(c[d])]) <= MaxTokens}
    /\ column = PostingsArray_index(tokenized)
    /\ query_result = [op |-> "new"]
    /\ EncoderIdle
    /\ BigramIdle

Answer(name, tokens, r) ==
    /\ query_result' = [op |-> name, tokens |-> tokens, raised |-> r.raised, val |-> r.val]
    /\ column' = r.column
    /\ UNCHANGED <<tokenized, encoder_vars, bigram_vars>>

TermFreq(tokens) == Answer("term_freq", tokens, term_freq(column, tokens))

DocFreq(term) == Answer("doc_freq", <<term>>, doc_freq(column, term))

DocLengths == Answer("doc_lengths", <<>>, doc_lengths(column))

Match(tokens) == Answer("match", tokens, match(column, tokens))

PhraseFreq(tokens) == Answer("phrase_freq", tokens, phrase_freq(column, tokens, 1))

TermFreqToplevel(term) ==
    Answer("term_freq_toplevel", <<term>>, term_freq_toplevel(column, term))

DocFreqToplevel(term) ==
    Answer("doc_freq_toplevel", <<term>>, doc_freq_toplevel(column, term))

MatchToplevel(term) ==
    Answer("match_toplevel", <<term>>, match_toplevel(column, term))

NextColumn ==
    \/ \E tokens \in TokenArgs : TermFreq(tokens)
    \/ \E term \in QueryTerms : DocFreq(term)
    \/ DocLengths
    \/ \E tokens \in TokenArgs : Match(tokens)
    \/ \E tokens \in PhrasePool : PhraseFreq(tokens)
    \/ \E term \in QueryTerms : TermFreqToplevel(term)
    \/ \E term \in QueryTerms : DocFreqToplevel(term)
    \/ \E term \in QueryTerms : MatchToplevel(term)

SpecColumn == InitColumn /\ [][NextColumn]_vars

\* a single document long enough to hold two separate runs of one term
InitRepeat ==
    /\ tokenized \in {<<d>> : d \in Docs(MaxRunDocLen)}
    /\ column = PostingsArray_index(tokenized)
    /\ query_result = [op |-> "new"]
    /\ EncoderIdle
    /\ BigramIdle

NextRepeat ==
    \/ \E t \in Terms : PhraseFreq(<<t, t>>)
    \/ \E t \in Terms : Match(<<t, t>>)

SpecRepeat == InitRepeat /\ [][NextRepeat]_vars

(***************************************************************************)
(* Claims about the column                                                 *)
(***************************************************************************)
Occurrences(doc, t) == Cardinality({p \in 1 .. Len(doc) : doc[p] = t})

\* the positions p of doc with s at p and t at p + 1
AdjacentCount(doc, s, t) ==
    Cardinality({p \in 1 .. Len(doc) - 1 : doc[p] = s /\ doc[p + 1] = t})

NumDocs == Len(tokenized)

\* C1: for two distinct terms s, t, phrase_freq([s, t]) gives for every document
\* the number of positions with s directly followed by t (0 when a term is
\* lacking), and match([s, t]) is true exactly for the documents where that
\* number is positive.
C1_BigramFreqCountsAdjacentPairs ==
    LET s == query_result.tokens[1]
        t == query_result.tokens[2]
    IN (query_result.op \in {"phrase_freq", "match"}
        /\ Len(query_result.tokens) = 2
        /\ query_result.tokens[1] # query_result.tokens[2])
       => /\ ~query_result.raised
          /\ Len(query_result.val) = NumDocs
          /\ \A d \in 1 .. NumDocs :
                IF query_result.op = "phrase_freq"
                THEN query_result.val[d] = AdjacentCount(tokenized[d], s, t)
                ELSE query_result.val[d] = (AdjacentCount(tokenized[d], s, t) > 0)

\* a document in which the bigram occurs twice
C1_Witness ==
    /\ query_result.op = "phrase_freq"
    /\ Len(query_result.tokens) = 2
    /\ query_result.tokens[1] # query_result.tokens[2]
    /\ ~query_result.raised
    /\ \E d \in 1 .. NumDocs : query_result.val[d] = 2

\* C2: term_freq(t)[d] is the number of occurrences of t in document d,
\* doc_freq(t) is the number of documents in which t occurs, and
\* doc_lengths()[d] is the token count of d.
C2_FreqsAndLengthsFromIndex ==
    /\ (query_result.op = "term_freq" /\ Len(query_result.tokens) = 1)
       => /\ ~query_result.raised
          /\ query_result.val
               = [d \in 1 .. NumDocs |-> Occurrences(tokenized[d], query_result.tokens[1])]
    /\ query_result.op = "doc_freq"
       => /\ ~query_result.raised
          /\ query_result.val
               = Cardinality({d \in 1 .. NumDocs :
                                 Occurrences(tokenized[d], query_result.tokens[1]) > 0})
    /\ query_result.op = "doc_lengths"
       => /\ ~query_result.raised
          /\ query_result.val = [d \in 1 .. NumDocs |-> Len(tokenized[d])]

\* a repeated token next to an empty document
C2_Witness ==
    /\ query_result.op = "term_freq"
    /\ Len(query_result.tokens) = 1
    /\ NumDocs = 2
    /\ query_result.val[1] >= 2
    /\ tokenized[2] = <<>>

\* the sum over the maximal runs of t in doc of floor(run length / 2)
RECURSIVE RunPairs(_, _, _, _)
RunPairs(doc, t, p, run) ==
    IF p > Len(doc) THEN run \div 2
    ELSE IF doc[p] = t THEN RunPairs(doc, t, p + 1, run + 1)
    ELSE (run \div 2) + RunPairs(doc, t, p + 1, 0)

\* C4: phrase_freq([t, t]) counts non-overlapping adjacent pairs: the sum over
\* the maximal runs of t in the document of floor(run length / 2).
C4_RepeatedTermCountsRunHalves ==
    (query_result.op = "phrase_freq"
     /\ Len(query_result.tokens) = 2
     /\ query_result.tokens[1] = query_result.tokens[2])
    => /\ ~query_result.raised
       /\ \A d \in 1 .. NumDocs :
             query_result.val[d] = RunPairs(tokenized[d], query_result.tokens[1], 1, 0)

\* C6: a query for a term that is not in the dictionary never raises: term_freq
\* and phrase_freq give a zero for every document, doc_freq gives 0, match gives
\* false for every document, and the column is left unchanged.
C6_MissingTermNeverRaises ==
    (query_result.op # "new"
     /\ \E k \in 1 .. Len(query_result.tokens) :
            \A i \in 1 .. Len(column.term_dict) : column.term_dict[i] # query_result.tokens[k])
    => /\ ~query_result.raised
       /\ column = PostingsArray_index(tokenized)
       /\ query_result.op \in {"term_freq", "phrase_freq", "term_freq_toplevel"}
             => query_result.val = [d \in 1 .. NumDocs |-> 0]
       /\ query_result.op \in {"doc_freq", "doc_freq_toplevel"} => query_result.val = 0
       /\ query_result.op \in {"match", "match_toplevel"}
             => query_result.val = [d \in 1 .. NumDocs |-> FALSE]

\* the answer the column in its present state gives to the query last asked
Requery ==
    CASE query_result.op = "term_freq" -> term_freq(column, query_result.tokens)
      [] query_result.op = "doc_freq" -> doc_freq(column, query_result.tokens[1])
      [] query_result.op = "doc_lengths" -> doc_lengths(column)
      [] query_result.op = "match" -> match(column, query_result.tokens)
      [] query_result.op = "phrase_freq" -> phrase_freq(column, query_result.tokens, 1)
      [] query_result.op = "term_freq_toplevel"
            -> term_freq_toplevel(column, query_result.tokens[1])
      [] query_result.op = "doc_freq_toplevel"
            -> doc_freq_toplevel(column, query_result.tokens[1])
      [] query_result.op = "match_toplevel" -> match_toplevel(column, query_result.tokens[1])

C11_AvgDocLengthIsMeanOfLengths ==
    LET sum == column.avg_doc_length[1]
        count == column.avg_doc_length[2]
    IN sum * NumDocs = SumSeq(doc_lengths(column).val) * count

(***************************************************************************)
(* searcharray/indexing.py: build_index_from_tokenizer.  terms_w_posns is  *)
(* the sequence of its columns <<term_id, doc_id, posn>>.                  *)
(***************************************************************************)
\* the loop over tokenizer(doc) in _gather_tokens: one column per token
RECURSIVE gather_doc(_, _, _, _)
gather_doc(st, doc, doc_id, posn) ==
    IF posn >= Len(doc) THEN st
    ELSE LET added == add_term(st.term_dict, doc[posn + 1])
         IN gather_doc([st EXCEPT !.term_dict = added.term_dict,
                                  !.terms_w_posns = Append(@, <<added.id, doc_id, posn>>)],
                       doc, doc_id, posn + 1)

\* np.unique(terms) of the document just gathered, as appended to term_doc
unique_terms(terms_w_posns, doc_id) ==
    AscendingSeq({terms_w_posns[i][1] :
                     i \in {j \in 1 .. Len(terms_w_posns) : terms_w_posns[j][2] = doc_id}})

\* _gather_tokens(array, tokenizer, term_dict, term_doc, start_doc_id)
RECURSIVE gather_tokens(_, _, _, _)
gather_tokens(st, array, start_doc_id, idx) ==
    IF idx >= Len(array) THEN st
    ELSE LET doc_id == start_doc_id + idx
             gathered == gather_doc(st, array[idx + 1], doc_id, 0)
         IN gather_tokens([gathered EXCEPT !.term_doc =
                               Append(@, unique_terms(gathered.terms_w_posns, doc_id))],
                          array, start_doc_id, idx + 1)

\* _compute_doc_lens without its closing `if`: only the documents that are
\* followed by another token get a length
compute_doc_lens_no_tail(posns, doc_ids, num_docs) ==
    LET non_empty_doc_lens == [i \in 1 .. Len(posns) - 1 |-> (0 - (posns[i + 1] - posns[i])) + 1]
        non_empty_idxs == {i \in 1 .. Len(posns) - 1 : non_empty_doc_lens[i] > 0}
        non_empty_doc_ids == {doc_ids[i] : i \in non_empty_idxs}
        last_idx(d) == MaxOf({i \in non_empty_idxs : doc_ids[i] = d})
    IN IF Len(doc_ids) = 0 THEN [raised |-> TRUE, val |-> <<>>]
       ELSE [raised |-> FALSE,
             val |-> [d \in 1 .. num_docs |->
                        IF (d - 1) \in non_empty_doc_ids
                        THEN non_empty_doc_lens[last_idx(d - 1)]
                        ELSE 0]]

\* _compute_doc_lens(posns, doc_ids, num_docs): doc_ids[-1] raises IndexError on
\* an empty array
compute_doc_lens(posns, doc_ids, num_docs) ==
    LET non_empty_doc_lens == [i \in 1 .. Len(posns) - 1 |-> (0 - (posns[i + 1] - posns[i])) + 1]
        non_empty_idxs == {i \in 1 .. Len(posns) - 1 : non_empty_doc_lens[i] > 0}
        non_empty_doc_ids == {doc_ids[i] : i \in non_empty_idxs}
        last_idx(d) == MaxOf({i \in non_empty_idxs : doc_ids[i] = d})
        last_doc == doc_ids[Len(doc_ids)]
    IN IF Len(doc_ids) = 0 THEN [raised |-> TRUE, val |-> <<>>]
       ELSE [raised |-> FALSE,
             val |-> [d \in 1 .. num_docs |->
                        IF last_doc = d - 1 /\ last_doc \notin non_empty_doc_ids
                        THEN posns[Len(posns)] + 1
                        ELSE IF (d - 1) \in non_empty_doc_ids
                        THEN non_empty_doc_lens[last_idx(d - 1)]
                        ELSE 0]]

\* the position limit imported from middle_out
MAX_POSN == 262143

\* np.lexsort(terms_w_posns[::-1, :]): by term, then document, then position
TripleLess(p, q) ==
    \/ p[1] < q[1]
    \/ p[1] = q[1] /\ p[2] < q[2]
    \/ p[1] = q[1] /\ p[2] = q[2] /\ p[3] < q[3]

RECURSIVE lexsort(_)
lexsort(S) ==
    IF S = {} THEN <<>>
    ELSE LET m == CHOOSE x \in S : \A y \in S : x = y \/ TripleLess(x, y)
         IN <<m>> \o lexsort(S \ {m})

\* PosnBitArrayFromFlatBuilder(terms_w_posns).build(): the positional index, kept
\* as the sorted columns it was built from
PosnBitArrayFromFlatBuilder_build(terms_w_posns) == terms_w_posns

\* _tokenize_batch(array, tokenizer, term_dict, term_doc, batch_size, batch_beg)
tokenize_batch(array, term_dict, term_doc, batch_beg) ==
    LET gathered == gather_tokens([term_dict |-> term_dict, term_doc |-> term_doc,
                                   terms_w_posns |-> <<>>], array, batch_beg, 0)
        flat == gathered.terms_w_posns
        lens == compute_doc_lens([i \in 1 .. Len(flat) |-> flat[i][3]],
                                 [i \in 1 .. Len(flat) |-> flat[i][2] - batch_beg],
                                 Len(array))
        sorted == lexsort({flat[i] : i \in 1 .. Len(flat)})
    IN IF lens.raised \/ \E d \in 1 .. Len(lens.val) : lens.val[d] > MAX_POSN
       THEN [raised |-> TRUE, term_doc |-> gathered.term_doc, bit_posns |-> <<>>,
             term_dict |-> gathered.term_dict, doc_lens |-> <<>>]
       ELSE [raised |-> FALSE, term_doc |-> gathered.term_doc,
             bit_posns |-> PosnBitArrayFromFlatBuilder_build(sorted),
             term_dict |-> gathered.term_dict, doc_lens |-> lens.val]

Min(a, b) == IF a < b THEN a ELSE b

\* the loop over the batches in build_index_from_tokenizer
RECURSIVE index_batches(_, _, _, _)
index_batches(st, array, batch_size, batch_beg) ==
    IF batch_beg >= Len(array) \/ st.raised THEN st
    ELSE LET batch_end == Min(batch_beg + batch_size, Len(array))
             batch == SubSeq(array, batch_beg + 1, batch_end)
             done == tokenize_batch(batch, st.term_dict, st.term_doc, batch_beg)
         IN index_batches([raised |-> done.raised,
                           term_doc |-> done.term_doc,
                           bit_posns |-> st.bit_posns \o done.bit_posns,
                           term_dict |-> done.term_dict,
                           doc_lens |-> Append(st.doc_lens, done.doc_lens)],
                          array, batch_size, batch_beg + batch_size)

RECURSIVE concatenate(_)
concatenate(arrays) == IF arrays = <<>> THEN <<>> ELSE arrays[1] \o concatenate(Tail(arrays))

\* build_index_from_tokenizer(array, tokenizer, batch_size): np.concatenate of
\* an empty list raises ValueError; avg_doc_length is the fraction <<sum, count>>
build_index_from_tokenizer(array, batch_size) ==
    LET st == index_batches([raised |-> FALSE, term_doc |-> <<>>, bit_posns |-> <<>>,
                             term_dict |-> <<>>, doc_lens |-> <<>>], array, batch_size, 0)
        doc_lens == concatenate(st.doc_lens)
    IN IF st.raised \/ st.doc_lens = <<>>
       THEN [raised |-> TRUE, term_doc |-> <<>>, bit_posns |-> <<>>, term_dict |-> <<>>,
             avg_doc_length |-> <<0, 0>>, doc_lens |-> <<>>]
       ELSE [raised |-> FALSE, term_doc |-> st.term_doc, bit_posns |-> st.bit_posns,
             term_dict |-> st.term_dict,
             avg_doc_length |-> <<SumSeq(doc_lens), Len(doc_lens)>>, doc_lens |-> doc_lens]

(***************************************************************************)
(* The index builder under test                                            *)
(***************************************************************************)
\* the default batch_size and two that split the arrays tried
BatchSizes == {1, 2, 10000}

\* arrays of zero to three documents holding at most MaxTokens tokens
Arrays ==
    LET D == Docs(MaxTokens)
        Rest(used) == Docs(MaxTokens - used)
    IN {<<>>} \cup {<<d>> : d \in D}
       \cup UNION {{<<d, e>> : e \in Rest(Len(d))} : d \in D}
       \cup UNION {UNION {{<<d, e, f>> : f \in Rest(Len(d) + Len(e))} : e \in Rest(Len(d))} :
                      d \in D}

InitIndexing ==
    /\ tokenized \in {c \in Arrays : SumSeq([d \in 1 .. Len(c) |-> Len(c[d])]) <= MaxTokens}
    /\ column = <<>>
    /\ query_result = [op |-> "new"]
    /\ EncoderIdle
    /\ BigramIdle

BuildIndexFromTokenizer(batch_size) ==
    /\ LET built == build_index_from_tokenizer(tokenized, batch_size)
       IN /\ column' = built
          /\ query_result' = [op |-> "build_index_from_tokenizer", batch_size |-> batch_size,
                              raised |-> built.raised]
    /\ UNCHANGED <<tokenized, encoder_vars, bigram_vars>>

\* one batch on its own: the whole array from document 0
TokenizeBatch ==
    /\ LET built == tokenize_batch(tokenized, <<>>, <<>>, 0)
       IN /\ column' = built
          /\ query_result' = [op |-> "tokenize_batch", batch_size |-> Len(tokenized),
                              raised |-> built.raised]
    /\ UNCHANGED <<tokenized, encoder_vars, bigram_vars>>

NextIndexing ==
    \/ \E batch_size \in BatchSizes : BuildIndexFromTokenizer(batch_size)
    \/ TokenizeBatch

SpecIndexing == InitIndexing /\ [][NextIndexing]_vars

\* the batches build_index_from_tokenizer cuts the array into
BatchesOf(array, batch_size) ==
    {SubSeq(array, b + 1, Min(b + batch_size, Len(array))) :
        b \in {x \in 0 .. Len(array) - 1 : x % batch_size = 0}}

AllEmpty(array) == \A d \in 1 .. Len(array) : array[d] = <<>>

\* C12: indexing accepts empty documents: build_index_from_tokenizer over a
\* column with zero documents, or with a batch made only of empty documents,
\* returns instead of raising, with doc_lens equal to each document's token count
\* (0 for the empty ones).
C12_EmptyDocumentsIndexWithoutError ==
    (query_result.op = "build_index_from_tokenizer"
     /\ (tokenized = <<>>
         \/ \E batch \in BatchesOf(tokenized, query_result.batch_size) : AllEmpty(batch)))
    => /\ ~query_result.raised
       /\ column.doc_lens = [d \in 1 .. Len(tokenized) |-> Len(tokenized[d])]

(***************************************************************************)
(* Phrases of three terms and the slop argument                            *)
(***************************************************************************)
PhraseTerms == {"a", "b", "c"}

\* match(token, slop): slop is accepted and not handed to phrase_freq
match_slop(col, tokens, slop) == match(col, tokens)

\* columns of one or two documents of at most MaxPhraseDocLen tokens each
PhraseCorpora ==
    LET D == UNION {SeqsOfLen(PhraseTerms, k) : k \in 0 .. MaxPhraseDocLen}
    IN {<<d>> : d \in D} \cup {<<d, e>> : d \in D, e \in D}

Slops == {1, 2}

InitPhrase ==
    /\ tokenized \in PhraseCorpora
    /\ column = PostingsArray_index(tokenized)
    /\ query_result = [op |-> "new"]
    /\ EncoderIdle
    /\ BigramIdle

AnswerSlop(name, tokens, slop, r) ==
    /\ query_result' = [op |-> name, tokens |-> tokens, slop |-> slop,
                        raised |-> r.raised, val |-> r.val]
    /\ column' = r.column
    /\ UNCHANGED <<tokenized, encoder_vars, bigram_vars>>

PhraseFreqSlop(tokens, slop) ==
    AnswerSlop("phrase_freq", tokens, slop, phrase_freq(column, tokens, slop))

MatchSlop(tokens, slop) ==
    AnswerSlop("match", tokens, slop, match_slop(column, tokens, slop))

TermFreqList(tokens) ==
    AnswerSlop("term_freq", tokens, 1, term_freq(column, tokens))

NextPhrase ==
    \/ \E tokens \in {<<"a", "b", "c">>, <<"a", "b">>, <<"b", "c">>}, slop \in Slops :
          PhraseFreqSlop(tokens, slop)
    \/ \E tokens \in {<<"a", "b">>, <<"a">>}, slop \in Slops : MatchSlop(tokens, slop)
    \/ \E tokens \in {<<"a", "b">>, <<"a">>} : TermFreqList(tokens)

SpecPhrase == InitPhrase /\ [][NextPhrase]_vars

\* C13: for a phrase [a, b, c] of distinct terms and every document,
\* phrase_freq([a, b, c]) <= min(phrase_freq([a, b]), phrase_freq([b, c])).
C13_TrigramAtMostBigrams ==
    (query_result.op = "phrase_freq" /\ query_result.slop = 1
     /\ query_result.tokens = <<"a", "b", "c">>)
    => /\ ~query_result.raised
       /\ \A d \in 1 .. NumDocs :
             /\ query_result.val[d] <= phrase_freq(column, <<"a", "b">>, 1).val[d]
             /\ query_result.val[d] <= phrase_freq(column, <<"b", "c">>, 1).val[d]

\* C14: match(tokens, slop=s) is true exactly where phrase_freq(tokens, slop=s) > 0,
\* for every slop s >= 1; match of a single token is true exactly where
\* term_freq(token) > 0; term_freq of a token list equals phrase_freq of that list.
C14_MatchIsPositiveFreq ==
    /\ (query_result.op = "match" /\ Len(query_result.tokens) > 1)
       => LET pf == phrase_freq(column, query_result.tokens, query_result.slop)
          IN /\ ~query_result.raised
             /\ ~pf.raised
             /\ \A d \in 1 .. NumDocs : query_result.val[d] <=> pf.val[d] > 0
    /\ (query_result.op = "match" /\ Len(query_result.tokens) = 1)
       => /\ ~query_result.raised
          /\ \A d \in 1 .. NumDocs :
                query_result.val[d] <=> term_freq(column, query_result.tokens).val[d] > 0
    /\ (query_result.op = "term_freq" /\ Len(query_result.tokens) > 1)
       => LET pf == phrase_freq(column, query_result.tokens, 1)
          IN /\ query_result.raised = pf.raised
             /\ query_result.val = pf.val

\* the positions p of a document where term i of the phrase is at p + i - 1
ChainCount(doc, tokens) ==
    Cardinality({p \in 1 .. Len(doc) :
                    \A i \in 1 .. Len(tokens) :
                       p + i - 1 <= Len(doc) /\ doc[p + i - 1] = tokens[i]})

\* C20: for a phrase of three or more distinct terms and slop 1, phrase_freq
\* returns, without error, for every document the number of positions p with
\* term i at p + i - 1 for all i, also when only some of the documents holding
\* all the terms hold the first two adjacent.
C20_LongPhraseCountsChains ==
    (query_result.op = "phrase_freq" /\ query_result.slop = 1
     /\ Len(query_result.tokens) >= 3)
    => /\ ~query_result.raised
       /\ query_result.val =
             [d \in 1 .. NumDocs |-> ChainCount(tokenized[d], query_result.tokens)]

(***************************************************************************)
(* Masked intersection of sorted uint64 arrays (utils/snp_ops.py) and the  *)
(* encoder's intersect and intersect_rshift                                *)
(***************************************************************************)
\* the merge that emits every pair of equal masked values it meets, repeats included
RECURSIVE merge_all(_, _, _, _, _)
merge_all(lhs, rhs, mask, i, j) ==
    IF i > Len(lhs) \/ j > Len(rhs) THEN <<>>
    ELSE LET l == BitAnd(lhs[i], mask)
             r == BitAnd(rhs[j], mask)
         IN IF Less(l, r) THEN merge_all(lhs, rhs, mask, i + 1, j)
            ELSE IF Less(r, l) THEN merge_all(lhs, rhs, mask, i, j + 1)
            ELSE <<(<<i, j>>)>> \o merge_all(lhs, rhs, mask, i + 1, j + 1)

\* the sorted merge: equal masked values give one pair of indices, and the
\* repeats of that masked value on either side are passed over
RECURSIVE merge_drop(_, _, _, _, _)
merge_drop(lhs, rhs, mask, i, j) ==
    IF i > Len(lhs) \/ j > Len(rhs) THEN <<>>
    ELSE LET l == BitAnd(lhs[i], mask)
             r == BitAnd(rhs[j], mask)
             past(arr, from) ==
                 IF \E k \in from .. Len(arr) : BitAnd(arr[k], mask) # l
                 THEN CHOOSE k \in from .. Len(arr) :
                         /\ BitAnd(arr[k], mask) # l
                         /\ \A n \in from .. k - 1 : BitAnd(arr[n], mask) = l
                 ELSE Len(arr) + 1
         IN IF Less(l, r) THEN merge_drop(lhs, rhs, mask, i + 1, j)
            ELSE IF Less(r, l) THEN merge_drop(lhs, rhs, mask, i, j + 1)
            ELSE <<(<<i, j>>)>> \o merge_drop(lhs, rhs, mask, past(lhs, i), past(rhs, j))

pairs_result(lhs, mask, pairs) ==
    [values |-> [k \in 1 .. Len(pairs) |-> BitAnd(lhs[pairs[k][1]], mask)],
     lhs_idx |-> [k \in 1 .. Len(pairs) |-> pairs[k][1]],
     rhs_idx |-> [k \in 1 .. Len(pairs) |-> pairs[k][2]]]

snp_ops_intersect_all(lhs, rhs, mask) == pairs_result(lhs, mask, merge_all(lhs, rhs, mask, 1, 1))

\* snp_ops.intersect(lhs, rhs, mask) -> (values, lhs_idx, rhs_idx), indices 1-based here
snp_ops_intersect(lhs, rhs, mask) == pairs_result(lhs, mask, merge_drop(lhs, rhs, mask, 1, 1))

index_seq(arr, idx) == [k \in 1 .. Len(idx) |-> arr[idx[k]]]

\* the two's complement uint64 of a negative or zero shift: rshift.view(np.uint64)
view_uint64(rshift) == Sub(U64(0), U64(0 - rshift))

no_underflow_mask(enc, rhs, rshift) ==
    [k \in 1 .. Len(rhs) |->
        IF rshift = 0 - 1 THEN BitAnd(rhs[k], enc.payload_msb_mask) # {}
        ELSE ~Less(payload_msb(enc, rhs[k]), U64(0 - rshift))]

\* a shift that leaves the words where they are
actual_shift_none(enc, rhs, rshift) == rhs

actual_shift(enc, rhs, rshift) ==
    [k \in 1 .. Len(rhs) |-> Add(rhs[k], Shl(view_uint64(rshift), enc.payload_lsb_bits))]

\* _rhs_shifted: the assertion fails unless rshift < 0
rhs_shifted(enc, rhs, rshift) ==
    LET mask == no_underflow_mask(enc, rhs, rshift)
        rhs_int == Take(rhs, {k \in 1 .. Len(rhs) : mask[k]})
    IN IF ~(rshift < 0) THEN [raised |-> TRUE, rhs_int |-> <<>>, rhs_shifted |-> <<>>]
       ELSE [raised |-> FALSE, rhs_int |-> rhs_int,
             rhs_shifted |-> actual_shift(enc, rhs_int, rshift)]

intersect_rshift(enc, lhs, rhs, rshift) ==
    LET sh == rhs_shifted(enc, rhs, rshift)
        r == snp_ops_intersect(lhs, sh.rhs_shifted, enc.header_mask)
    IN IF sh.raised THEN [raised |-> TRUE, lhs |-> <<>>, rhs |-> <<>>]
       ELSE [raised |-> FALSE, lhs |-> index_seq(lhs, r.lhs_idx),
             rhs |-> index_seq(sh.rhs_int, r.rhs_idx)]

intersect(enc, lhs, rhs) ==
    LET r == snp_ops_intersect(lhs, rhs, enc.header_mask)
    IN [raised |-> FALSE, lhs |-> index_seq(lhs, r.lhs_idx), rhs |-> index_seq(rhs, r.rhs_idx)]

\* an encoded word of the default layout from its key, payload MSBs and set LSB bits
Word(key, msb, lsbs) ==
    LET enc == Encoders[DEFAULT_KEY_BITS]
    IN BitOr(BitOr(Shl(U64(key), Bits64 - enc.key_bits), Shl(U64(msb), enc.payload_lsb_bits)), lsbs)

\* two words of one window, the windows one and two above it, the last window
\* of key 0 and the first window of key 1
WordPool ==
    {Word(0, 0, {0}), Word(0, 0, {1}), Word(0, 1, {0}), Word(0, 2, {1}),
     Word(0, Pow2(Encoders[DEFAULT_KEY_BITS].payload_msb_bits) - 1, {0}), Word(1, 0, {0})}

RECURSIVE SortWords(_)
SortWords(S) == IF S = {} THEN <<>>
                ELSE LET w == CHOOSE x \in S : \A y \in S \ {x} : Less(x, y)
                     IN <<w>> \o SortWords(S \ {w})

\* sorted arrays of at most MaxWords words, a word possibly twice
SortedArrays ==
    LET once == {SortWords(S) : S \in SubsetsUpTo(WordPool, MaxWords)}
        twice == {<<w, w>> : w \in WordPool}
    IN IF MaxWords >= 2 THEN once \cup twice ELSE once

Rshifts == {0, 0 - 1, 0 - 2}
Masks == {AllBits, Encoders[DEFAULT_KEY_BITS].header_mask}

InitIntersect ==
    /\ EncoderIdle
    /\ ColumnIdle
    /\ lhs_posns \in SortedArrays
    /\ rhs_posns \in SortedArrays
    /\ bigram_result = [op |-> "new"]

SnpOpsIntersect(mask) ==
    /\ bigram_result.op = "new"
    /\ bigram_result' = [op |-> "snp_ops.intersect", mask |-> mask,
                         res |-> snp_ops_intersect(lhs_posns, rhs_posns, mask)]
    /\ UNCHANGED <<lhs_posns, rhs_posns, encoder_vars, column_vars>>

Intersect ==
    /\ bigram_result.op = "new"
    /\ bigram_result' = [op |-> "intersect",
                         res |-> intersect(Encoders[key_bits], lhs_posns, rhs_posns)]
    /\ UNCHANGED <<lhs_posns, rhs_posns, encoder_vars, column_vars>>

IntersectRshift(rshift) ==
    /\ bigram_result.op = "new"
    /\ bigram_result' = [op |-> "intersect_rshift", rshift |-> rshift,
                         res |-> intersect_rshift(Encoders[key_bits], lhs_posns, rhs_posns, rshift)]
    /\ UNCHANGED <<lhs_posns, rhs_posns, encoder_vars, column_vars>>

NextSnpOps == \E mask \in Masks : SnpOpsIntersect(mask)

SpecSnpOps == InitIntersect /\ [][NextSnpOps]_vars

NextIntersect ==
    \/ Intersect
    \/ \E rshift \in Rshifts : IntersectRshift(rshift)

SpecIntersect == InitIntersect /\ [][NextIntersect]_vars

\* C15: intersect_rshift(lhs, rhs, 0) returns the same pair of arrays as
\* intersect(lhs, rhs), for all sorted encoded arrays.
C15_ZeroShiftIsIntersect ==
    (bigram_result.op = "intersect_rshift" /\ bigram_result.rshift = 0)
    => bigram_result.res = intersect(Encoders[key_bits], lhs_posns, rhs_posns)

MaskedValues(arr, mask) == {BitAnd(arr[i], mask) : i \in 1 .. Len(arr)}

\* C16: intersect(lhs, rhs, mask) over sorted uint64 arrays returns lhs_idx and
\* rhs_idx of equal length, both ascending, with lhs[lhs_idx[k]] & mask equal to
\* rhs[rhs_idx[k]] & mask for every k; every masked value present on both sides
\* appears exactly once in the result even when duplicated in an input, and none
\* is missed: the values are the sorted common masked values.
C16_IntersectPairsCommonOnce ==
    bigram_result.op = "snp_ops.intersect"
    => LET r == bigram_result.res
           mask == bigram_result.mask
           n == Len(r.lhs_idx)
           common == MaskedValues(lhs_posns, mask) \cap MaskedValues(rhs_posns, mask)
       IN /\ Len(r.rhs_idx) = n
          /\ \A k \in 1 .. n : /\ r.lhs_idx[k] \in 1 .. Len(lhs_posns)
                               /\ r.rhs_idx[k] \in 1 .. Len(rhs_posns)
                               /\ BitAnd(lhs_posns[r.lhs_idx[k]], mask)
                                     = BitAnd(rhs_posns[r.rhs_idx[k]], mask)
          /\ \A k \in 1 .. n - 1 : /\ r.lhs_idx[k] < r.lhs_idx[k + 1]
                                   /\ r.rhs_idx[k] < r.rhs_idx[k + 1]
          /\ \A v \in common :
                Cardinality({k \in 1 .. n : BitAnd(lhs_posns[r.lhs_idx[k]], mask) = v}) = 1
          /\ r.values = SortWords(common)

\* a masked value held twice by lhs and twice by rhs has been intersected
C16_Witness ==
    /\ bigram_result.op = "snp_ops.intersect"
    /\ Len(bigram_result.res.lhs_idx) = 1
    /\ Len(lhs_posns) = 2
    /\ Len(rhs_posns) = 2
    /\ Cardinality(MaskedValues(lhs_posns, bigram_result.mask)) = 1
    /\ Cardinality(MaskedValues(rhs_posns, bigram_result.mask)) = 1

(***************************************************************************)
(* PosnBitArrayBuilder and PosnBitArray (phrase/middle_out.py)             *)
(***************************************************************************)
\* the builder after __init__; term_posns and term_posn_doc_ids, which grow
\* together, are kept as one list of <<doc_id, position>> per term id
PosnBitArrayBuilder == [staged |-> <<>>, max_doc_id |-> 0]

\* add_posns(doc_id, term_id, posns): the positions are appended as given
add_posns(b, doc_id, term_id, posns) ==
    LET before == IF term_id \in DOMAIN b.staged THEN b.staged[term_id] ELSE <<>>
        extended == before \o [k \in 1 .. Len(posns) |-> <<doc_id, posns[k]>>]
    IN [staged |-> [t \in DOMAIN b.staged \cup {term_id} |->
                       IF t = term_id THEN extended ELSE b.staged[t]],
        max_doc_id |-> MaxOf({b.max_doc_id, doc_id})]

PosnBitArray(encoded_term_posns, doc_ids) ==
    [encoded_term_posns |-> encoded_term_posns, doc_ids |-> doc_ids]

\* build(): every staged list goes through encode_posns
build(b) ==
    [raised |-> \E t \in DOMAIN b.staged : encode_posns(b.staged[t]).raised,
     index |-> PosnBitArray([t \in DOMAIN b.staged |-> encode_posns(b.staged[t]).val],
                            <<0, b.max_doc_id + 1>>)]

\* snp.merge of two arrays: the two-pointer merge, equal words from both kept
RECURSIVE snp_merge(_, _)
snp_merge(a, b) ==
    IF a = <<>> THEN b
    ELSE IF b = <<>> THEN a
    ELSE IF Less(b[1], a[1]) THEN <<b[1]>> \o snp_merge(a, Tail(b))
    ELSE <<a[1]>> \o snp_merge(Tail(a), b)

\* merge(other): the loop runs over the term ids of self
merge(self, other) ==
    PosnBitArray([t \in DOMAIN self.encoded_term_posns |->
                     IF t \in DOMAIN other.encoded_term_posns
                     THEN snp_merge(self.encoded_term_posns[t], other.encoded_term_posns[t])
                     ELSE self.encoded_term_posns[t]],
                 self.doc_ids)

\* the builder of insert(): row k of term_ids_to_posns is staged as document k - 1
RECURSIVE insert_rows(_, _, _)
insert_rows(b, rows, k) ==
    IF k > Len(rows) THEN b
    ELSE LET RECURSIVE add_row(_, _)
             add_row(bb, n) ==
                 IF n > Len(rows[k]) THEN bb
                 ELSE add_row(add_posns(bb, k - 1, rows[k][n][1], rows[k][n][2]), n + 1)
             added == add_row(b, 1)
         IN insert_rows([added EXCEPT !.max_doc_id = k - 1], rows, k + 1)

\* insert(key, term_ids_to_posns): key is not read
insert(self, key, term_ids_to_posns) ==
    merge(self, build(insert_rows(PosnBitArrayBuilder, term_ids_to_posns, 1)).index)

\* get_docs(encoded, doc_ids): found is taken from the shifted doc ids of the
\* words, not from the words
get_docs(enc_arr, doc_ids) ==
    LET encoded_doc_ids == [i \in 1 .. Len(enc_arr) |-> Shr(enc_arr[i], 32)]
        ids == [j \in 1 .. Len(doc_ids) |-> U64(doc_ids[j])]
        empty == [j \in 1 .. Len(doc_ids) |-> Shl(ids[j], 32)]
        common == {ids[j] : j \in 1 .. Len(ids)}
                     \cap {encoded_doc_ids[i] : i \in 1 .. Len(enc_arr)}
        found == Take(encoded_doc_ids,
                      {i \in 1 .. Len(enc_arr) : encoded_doc_ids[i] \in common})
        empties == Take(empty, {j \in 1 .. Len(ids) : ids[j] \notin common})
    IN snp_merge(found, empties)

\* PosnBitArray.positions(term_id, key) for an integer key: range(...)[key]
\* raises IndexError outside the range, an unknown term id gives the empty
\* arrays, otherwise the positions of the first decoded document are returned
PosnBitArray_positions(self, term_id, key) ==
    IF key < self.doc_ids[1] \/ key >= self.doc_ids[2]
    THEN [raised |-> TRUE, val |-> <<>>]
    ELSE IF term_id \notin DOMAIN self.encoded_term_posns
    THEN [raised |-> FALSE, val |-> <<>>]
    ELSE LET decoded == decode_posns(get_docs(self.encoded_term_posns[term_id], <<key>>))
         IN [raised |-> FALSE, val |-> IF Len(decoded) = 0 THEN <<>> ELSE decoded[1][2]]

PosnDocs == {0, 1}
PosnTermIds == {0, 1}
PosnLists == {<<0>>, <<0, 16>>, <<1, 0>>, <<1, 1>>}

StagedCount(b) == SumSeq([k \in 1 .. Cardinality(DOMAIN b.staged) |->
                            LET t == CHOOSE x \in DOMAIN b.staged :
                                        Cardinality({y \in DOMAIN b.staged : y < x}) = k - 1
                            IN Len(b.staged[t])])

\* the indexes merged into the built one hold document 2 only
OtherIndexes ==
    {build(add_posns(PosnBitArrayBuilder, 2, t, <<0>>)).index : t \in PosnTermIds}
    \cup {build(add_posns(add_posns(PosnBitArrayBuilder, 2, 0, <<0>>), 2, 1, <<1>>)).index}

InsertRows == {<<(<<(<<t, <<3>>>>)>>)>> : t \in PosnTermIds}

InitPosnIndex ==
    /\ EncoderIdle
    /\ ColumnIdle
    /\ lhs_posns = PosnBitArrayBuilder
    /\ rhs_posns \in OtherIndexes
    /\ bigram_result = [op |-> "new"]

AddPosns(doc_id, term_id, posns) ==
    /\ StagedCount(lhs_posns) + Len(posns) <= MaxStaged
    /\ lhs_posns' = add_posns(lhs_posns, doc_id, term_id, posns)
    /\ bigram_result' = [op |-> "add_posns", raised |-> FALSE, posns |-> posns,
                         before |-> lhs_posns]
    /\ UNCHANGED <<rhs_posns, encoder_vars, column_vars>>

Build ==
    /\ bigram_result' = [op |-> "build", raised |-> build(lhs_posns).raised,
                         index |-> build(lhs_posns).index]
    /\ UNCHANGED <<lhs_posns, rhs_posns, encoder_vars, column_vars>>

Merge ==
    /\ bigram_result.op = "build"
    /\ ~bigram_result.raised
    /\ bigram_result' = [op |-> "merge", raised |-> FALSE, before |-> bigram_result.index,
                         index |-> merge(bigram_result.index, rhs_posns)]
    /\ UNCHANGED <<lhs_posns, rhs_posns, encoder_vars, column_vars>>

Insert(rows) ==
    /\ bigram_result.op = "build"
    /\ ~bigram_result.raised
    /\ bigram_result' = [op |-> "insert", raised |-> FALSE, before |-> bigram_result.index,
                         index |-> insert(bigram_result.index, 0, rows)]
    /\ UNCHANGED <<lhs_posns, rhs_posns, encoder_vars, column_vars>>

\* positions(term_id, doc_id) on the index just built
Positions(term_id, doc_id) ==
    /\ bigram_result.op = "build"
    /\ ~bigram_result.raised
    /\ LET r == PosnBitArray_positions(bigram_result.index, term_id, doc_id)
       IN bigram_result' = [op |-> "positions", raised |-> r.raised, val |-> r.val,
                            term_id |-> term_id, doc_id |-> doc_id,
                            index |-> bigram_result.index]
    /\ UNCHANGED <<lhs_posns, rhs_posns, encoder_vars, column_vars>>

NextPosnIndex ==
    \/ \E doc_id \in PosnDocs, term_id \in PosnTermIds, posns \in PosnLists :
          AddPosns(doc_id, term_id, posns)
    \/ Build
    \/ Merge
    \/ \E rows \in InsertRows : Insert(rows)
    \/ \E term_id \in PosnTermIds, doc_id \in PosnDocs : Positions(term_id, doc_id)

SpecPosnIndex == InitPosnIndex /\ [][NextPosnIndex]_vars

SortedWords(arr) == \A k \in 1 .. Len(arr) - 1 : ~Less(arr[k + 1], arr[k])
WordsOf(index, t) ==
    IF t \in DOMAIN index.encoded_term_posns
    THEN {index.encoded_term_posns[t][k] : k \in 1 .. Len(index.encoded_term_posns[t])}
    ELSE {}

\* C18: after a.merge(b) of two positional indexes over disjoint document
\* ranges, for every term id of a or of b, a's encoded array for the term holds
\* every word a or b held for it, in sorted order; a term present only in b is
\* present in a after the merge.
C18_MergeKeepsEveryTerm ==
    (/\ bigram_result.op = "merge"
     /\ \A t \in DOMAIN bigram_result.before.encoded_term_posns :
           SortedWords(bigram_result.before.encoded_term_posns[t]))
    => \A t \in DOMAIN bigram_result.before.encoded_term_posns
                \cup DOMAIN rhs_posns.encoded_term_posns :
          /\ t \in DOMAIN bigram_result.index.encoded_term_posns
          /\ WordsOf(bigram_result.before, t) \cup WordsOf(rhs_posns, t)
                \subseteq WordsOf(bigram_result.index, t)
          /\ SortedWords(bigram_result.index.encoded_term_posns[t])

StrictlyAscending(posns) == \A k \in 1 .. Len(posns) - 1 : posns[k] < posns[k + 1]

\* C19: add_posns(doc_id, term_id, positions) rejects a positions list that is
\* not strictly ascending: it raises and leaves the staged postings unchanged,
\* so that build() never encodes such input.
C19_AddPosnsRejectsUnsorted ==
    /\ (bigram_result.op = "add_posns" /\ ~StrictlyAscending(bigram_result.posns))
       => (bigram_result.raised /\ lhs_posns = bigram_result.before)
    /\ bigram_result.op = "build"
       => \A t \in DOMAIN lhs_posns.staged :
             \A i, j \in 1 .. Len(lhs_posns.staged[t]) :
                (i < j /\ lhs_posns.staged[t][i][1] = lhs_posns.staged[t][j][1])
                => lhs_posns.staged[t][i][2] < lhs_posns.staged[t][j][2]

(***************************************************************************)
(* Copies and slices of a column as objects: every array, matrix, list and *)
(* dictionary is a value in a heap, and a reference is its index there.    *)
(***************************************************************************)
\* RowViewableMatrix(mat, rows): references to the matrix and to the row selection
RowViewableMatrix(mat, rows) == [mat |-> mat, rows |-> rows]

\* the objects of PostingsArray.index(array) and of one PosnBitArray
BaseObjects == 8

PostingsArray_objects(col, pba) ==
    LET arange == [d \in 1 .. len(col) |-> d]
    IN [heap |-> <<col.term_freqs, arange, col.posns, arange, col.posns_lookup,
                   col.term_dict, pba.encoded_term_posns, pba.doc_ids>>,
        arr |-> [term_freqs |-> RowViewableMatrix(1, 2),
                 posns |-> RowViewableMatrix(3, 4),
                 posns_lookup |-> 5,
                 term_dict |-> 6,
                 avg_doc_length |-> col.avg_doc_length],
        pba |-> PosnBitArray(7, 8)]

\* RowViewableMatrix.copy(): self.mat.copy() and self.rows.copy() are new objects
RowViewableMatrix_copy(heap, m) ==
    [heap |-> heap \o <<heap[m.mat], heap[m.rows]>>,
     val |-> RowViewableMatrix(Len(heap) + 1, Len(heap) + 2)]

\* a slice that selects its rows from a copy of the matrix
RowViewableMatrix_slice_copy(heap, m, key) ==
    [heap |-> heap \o <<heap[m.mat], [k \in 1 .. Len(key) |-> heap[m.rows][key[k]]]>>,
     val |-> RowViewableMatrix(Len(heap) + 1, Len(heap) + 2)]

\* RowViewableMatrix.slice(keys): the same matrix, a new selection rows[keys]
RowViewableMatrix_slice(heap, m, key) ==
    [heap |-> Append(heap, [k \in 1 .. Len(key) |-> heap[m.rows][key[k]]]),
     val |-> RowViewableMatrix(m.mat, Len(heap) + 1)]

\* RowViewableMatrix.__setitem__(key, values) for an integral key
RowViewableMatrix_setitem(heap, m, key, values) ==
    [heap EXCEPT ![m.mat][heap[m.rows][key]] = values]

\* TermDict.copy(): the same dictionary or a new one holding the same terms
TermDict_copy(heap, term_dict, shared) ==
    IF shared THEN [heap |-> heap, val |-> term_dict]
    ELSE [heap |-> Append(heap, heap[term_dict]), val |-> Len(heap) + 1]

\* PostingsArray.copy()
PostingsArray_copy(heap, arr, dict_shared) ==
    LET posns == RowViewableMatrix_copy(heap, arr.posns)
        lookup == Append(posns.heap, posns.heap[arr.posns_lookup])
        term_freqs == RowViewableMatrix_copy(lookup, arr.term_freqs)
        term_dict == TermDict_copy(term_freqs.heap, arr.term_dict, dict_shared)
    IN [heap |-> term_dict.heap,
        val |-> [term_freqs |-> term_freqs.val,
                 posns |-> posns.val,
                 posns_lookup |-> Len(lookup),
                 term_dict |-> term_dict.val,
                 avg_doc_length |-> arr.avg_doc_length]]

\* PostingsArray.__getitem__(key) for a key that is not an integer: a sliced view
PostingsArray_getitem(heap, arr, key) ==
    LET sliced_tfs == RowViewableMatrix_slice(heap, arr.term_freqs, key)
        sliced_posns == RowViewableMatrix_slice(sliced_tfs.heap, arr.posns, key)
    IN [heap |-> sliced_posns.heap,
        val |-> [term_freqs |-> sliced_tfs.val,
                 posns |-> sliced_posns.val,
                 posns_lookup |-> arr.posns_lookup,
                 term_dict |-> arr.term_dict,
                 avg_doc_length |-> arr.avg_doc_length]]

\* PosnBitArray.copy(): a deepcopy of encoded_term_posns, the same doc_ids
PosnBitArray_copy(heap, pba) ==
    [heap |-> Append(heap, heap[pba.encoded_term_posns]),
     val |-> PosnBitArray(Len(heap) + 1, pba.doc_ids)]

\* columns of one or two documents holding at most two tokens in all
CopyCorpora == {array \in Corpora : SumSeq([d \in 1 .. Len(array) |-> Len(array[d])]) <= 2}

\* the ascending selections of rows a column of n documents is sliced by
RECURSIVE Ascending(_)
Ascending(S) == IF S = {} THEN <<>>
                ELSE LET x == CHOOSE y \in S : \A z \in S : y <= z
                     IN <<x>> \o Ascending(S \ {x})

SliceKeys(n) == {Ascending(S) : S \in SUBSET (1 .. n)}

InitCopy ==
    /\ tokenized \in CopyCorpora
    /\ \E pba \in OtherIndexes :
          column = PostingsArray_objects(PostingsArray_index(tokenized), pba)
    /\ query_result = [op |-> "new"]
    /\ EncoderIdle
    /\ BigramIdle

\* the objects of the column itself; those of an earlier copy or slice are
\* unreferenced once the next one replaces it
Base == SubSeq(column.heap, 1, BaseObjects)

Derive(name, r) ==
    /\ query_result' = [op |-> name, arr |-> r.val]
    /\ column' = [column EXCEPT !.heap = r.heap]
    /\ UNCHANGED <<tokenized, encoder_vars, bigram_vars>>

Copy(dict_shared) == Derive("copy", PostingsArray_copy(Base, column.arr, dict_shared))

GetItem(key) == Derive("slice", PostingsArray_getitem(Base, column.arr, key))

PosnCopy == Derive("posn_copy", PosnBitArray_copy(Base, column.pba))

\* term_freqs[key] = values through the copy or the slice
SetItem(key) ==
    /\ query_result.op \in {"copy", "slice"}
    /\ key \in 1 .. Len(column.heap[query_result.arr.term_freqs.rows])
    /\ LET m == query_result.arr.term_freqs
           width == Len(column.heap[column.arr.term_dict])
       IN column' = [column EXCEPT !.heap =
                        RowViewableMatrix_setitem(column.heap, m, key,
                                                  [c \in 0 .. width - 1 |-> 0])]
    /\ UNCHANGED <<query_result, tokenized, encoder_vars, bigram_vars>>

NextCopy ==
    \/ \E dict_shared \in BOOLEAN : Copy(dict_shared)
    \/ \E key \in SliceKeys(Len(tokenized)) : GetItem(key)
    \/ PosnCopy
    \/ \E key \in 1 .. 2 : SetItem(key)

SpecCopy == InitCopy /\ [][NextCopy]_vars

\* C17: copy() of a column shares the term dictionary and the position and
\* term-frequency store with the original, the same objects being referenced
\* by both, and clones only the row-selection vector.
C17_CopySharesIndex ==
    /\ query_result.op = "copy"
       => /\ query_result.arr.term_dict = column.arr.term_dict
          /\ query_result.arr.posns_lookup = column.arr.posns_lookup
          /\ query_result.arr.posns.mat = column.arr.posns.mat
          /\ query_result.arr.term_freqs.mat = column.arr.term_freqs.mat
          /\ query_result.arr.posns.rows # column.arr.posns.rows
          /\ query_result.arr.term_freqs.rows # column.arr.term_freqs.rows
    /\ query_result.op = "posn_copy"
       => query_result.arr.encoded_term_posns = column.pba.encoded_term_posns

\* the positions p of a document with s at p and t at p + slop
SlopCount(doc, s, t, slop) ==
    Cardinality({p \in 1 .. Len(doc) : p + slop <= Len(doc) /\ doc[p] = s /\ doc[p + slop] = t})

\* C21: with slop = s (s >= 1) and two distinct terms [a, b], the phrase count
\* of a document equals the number of positions p with a at p and b at p + s;
\* for s = 2 a document "a x b" yields 1.
C21_SlopCountsPairsAtDistance ==
    (query_result.op = "phrase_freq" /\ Len(query_result.tokens) = 2)
    => /\ ~query_result.raised
       /\ \A d \in 1 .. NumDocs :
             query_result.val[d] = SlopCount(tokenized[d], query_result.tokens[1],
                                             query_result.tokens[2], query_result.slop)

\* C22: for rshift = -k with k >= 1, intersect_rshift(lhs, rhs, rshift) returns
\* pairs (l, r) in ascending lhs order with key(l) = key(r) and
\* payload_msb(r) = payload_msb(l) + k; every rhs word with payload_msb < k is
\* excluded, and the 64-bit addition of the shift leaves the key field alone,
\* so that words of different documents are never paired.
C22_ShiftedIntersectPairsWindows ==
    (bigram_result.op = "intersect_rshift" /\ bigram_result.rshift < 0)
    => LET enc == Encoders[key_bits]
           k == 0 - bigram_result.rshift
           l == bigram_result.res.lhs
           r == bigram_result.res.rhs
           wanted == {<<i, j>> \in (1 .. Len(lhs_posns)) \X (1 .. Len(rhs_posns)) :
                         /\ keys(enc, lhs_posns[i]) = keys(enc, rhs_posns[j])
                         /\ payload_msb(enc, rhs_posns[j])
                               = Add(payload_msb(enc, lhs_posns[i]), U64(k))}
       IN /\ ~bigram_result.res.raised
          /\ Len(l) = Len(r)
          /\ \A n \in 1 .. Len(l) :
                /\ keys(enc, l[n]) = keys(enc, r[n])
                /\ payload_msb(enc, r[n]) = Add(payload_msb(enc, l[n]), U64(k))
                /\ ~Less(payload_msb(enc, r[n]), U64(k))
                /\ \E p \in wanted : lhs_posns[p[1]] = l[n] /\ rhs_posns[p[2]] = r[n]
          /\ \A n \in 1 .. Len(l) - 1 : Less(header(enc, l[n]), header(enc, l[n + 1]))
          /\ \A p \in wanted : \E n \in 1 .. Len(l) :
                header(enc, l[n]) = header(enc, lhs_posns[p[1]])

\* a word of window 1 has been paired with a word of window 0 of the same key
\* while a word of window 0 on the right was dropped
C22_Witness ==
    /\ bigram_result.op = "intersect_rshift"
    /\ bigram_result.rshift = 0 - 1
    /\ Len(bigram_result.res.lhs) >= 1
    /\ \E j \in 1 .. Len(rhs_posns) : payload_msb(Encoders[key_bits], rhs_posns[j]) = {}

\* C23: _compute_doc_lens gives every document of a batch holding at least one
\* token its token count: doc_lens[d] is the length of document d (its highest
\* position plus one), 0 for an empty document, wherever the empty, single-token
\* and multi-token documents stand in the batch.
C23_DocLensAreTokenCounts ==
    (query_result.op = "tokenize_batch" /\ ~AllEmpty(tokenized))
    => /\ ~query_result.raised
       /\ column.doc_lens = [d \in 1 .. Len(tokenized) |-> Len(tokenized[d])]

\* a batch of a multi-token, an empty and a single-token document, measured
C23_Witness ==
    /\ query_result.op = "tokenize_batch"
    /\ ~query_result.raised
    /\ Len(tokenized) = 3
    /\ Len(tokenized[1]) > 1
    /\ tokenized[2] = <<>>
    /\ Len(tokenized[3]) = 1
    /\ column.doc_lens = <<Len(tokenized[1]), 0, 1>>

(***************************************************************************)
(* searcharray/postings.py: element reads and writes of a column held as   *)
(* objects.  A key is the list of the selected rows, an integer key being  *)
(* the one-element list; a value is the list of the rows written.          *)
(***************************************************************************)
\* PostingsRow.tf_to_dense(term_dict): raises TermMissingError for a term that
\* is not in the dictionary
tf_to_dense(row, term_dict) ==
    IF \E k \in 1 .. Len(row.terms) : get_term_id(term_dict, row.terms[k]).raised
    THEN [raised |-> TRUE, val |-> <<>>]
    ELSE [raised |-> FALSE,
          val |-> [c \in 0 .. Len(term_dict) - 1 |->
                     IF term_dict[c + 1] \in DOMAIN row.postings
                     THEN row.postings[term_dict[c + 1]] ELSE 0]]

\* _row_to_postings_row(row, term_dict, posns, posns_lookup): the non-zero
\* columns of the row in column order, each with the list its slot holds
row_to_postings_row(row, term_dict, posns, posns_lookup) ==
    LET non_zeros == AscendingSeq({c \in DOMAIN row : row[c] # 0})
        cols == {non_zeros[i] : i \in 1 .. Len(non_zeros)}
        col_of(t) == CHOOSE c \in cols : term_dict[c + 1] = t
    IN [terms |-> [i \in 1 .. Len(non_zeros) |-> term_dict[non_zeros[i] + 1]],
        postings |-> [t \in {term_dict[c + 1] : c \in cols} |-> row[col_of(t)]],
        posns |-> [t \in {term_dict[c + 1] : c \in cols} |-> posns_lookup[posns[col_of(t)] + 1]]]

\* PostingsArray.__getitem__(key) for an integer key: a row the matrix does not
\* hold raises IndexError
PostingsArray_getitem_row(heap, arr, key) ==
    LET tf_row == heap[arr.term_freqs.rows][key]
        posn_row == heap[arr.posns.rows][key]
    IN IF tf_row > Len(heap[arr.term_freqs.mat]) \/ posn_row > Len(heap[arr.posns.mat])
       THEN [raised |-> TRUE, val |-> <<>>]
       ELSE [raised |-> FALSE,
             val |-> row_to_postings_row(heap[arr.term_freqs.mat][tf_row],
                                         heap[arr.term_dict],
                                         heap[arr.posns.mat][posn_row],
                                         heap[arr.posns_lookup])]

\* PostingsRow.__eq__: the term frequencies are compared, the positions are not
PostingsRow_eq(row, other) == row.postings = other.postings

\* PostingsArray.__len__
PostingsArray_len(heap, arr) == Len(heap[arr.term_freqs.rows])

\* positions(token) with key=None: for every row of the column the list held
\* by the slot of (row, term)
PostingsArray_positions(heap, arr, token) ==
    LET found == get_term_id(heap[arr.term_dict], token)
        mat == heap[arr.posns.mat]
        rows == heap[arr.posns.rows]
    IN IF found.raised \/ \E i \in 1 .. Len(rows) : rows[i] > Len(mat)
       THEN [raised |-> TRUE, val |-> <<>>]
       ELSE [raised |-> FALSE,
             val |-> [i \in 1 .. Len(rows) |->
                        heap[arr.posns_lookup][mat[rows[i]][found.id] + 1]]]

\* csr_matrix.resize(shape), in place: rows and columns beyond the shape are
\* dropped, new ones are zero
csr_resize(mat, shape) ==
    [d \in 1 .. shape[1] |->
        [c \in 0 .. shape[2] - 1 |->
            IF d <= Len(mat) /\ c \in DOMAIN mat[d] THEN mat[d][c] ELSE 0]]

\* RowViewableMatrix.shape[0]: the number of selected rows
RowViewableMatrix_shape0(heap, m) == Len(heap[m.rows])

\* RowViewableMatrix.resize(shape)
RowViewableMatrix_resize(heap, m, shape) == [heap EXCEPT ![m.mat] = csr_resize(@, shape)]

\* np.resize(a, new_size): a new array, a repeated as often as needed
np_resize(a, new_size) == [i \in 1 .. new_size |-> a[((i - 1) % Len(a)) + 1]]

\* self.term_freqs[key] = term_freqs, one selected row after the other
RECURSIVE setitem_term_freqs(_, _, _, _, _)
setitem_term_freqs(heap, m, key, values, k) ==
    IF k > Len(key) THEN heap
    ELSE setitem_term_freqs(RowViewableMatrix_setitem(heap, m, key[k], values[k]),
                            m, key, values, k + 1)

\* the loop over new_posns_row: the slot of (row, term) receives the positions
RECURSIVE setitem_posns_row(_, _, _, _, _)
setitem_posns_row(heap, arr, update_row, row, j) ==
    IF j > Len(row.terms) THEN heap
    ELSE LET term == row.terms[j]
             term_id == get_term_id(heap[arr.term_dict], term).id
             lookup_location == heap[arr.posns.mat][update_row][term_id]
         IN setitem_posns_row(
                IF term \in DOMAIN row.posns
                THEN [heap EXCEPT ![arr.posns_lookup][lookup_location + 1] = row.posns[term]]
                ELSE heap,
                arr, update_row, row, j + 1)

\* the loop over enumerate(posns)
RECURSIVE setitem_posns(_, _, _, _, _)
setitem_posns(heap, arr, key, value, k) ==
    IF k > Len(key) THEN heap
    ELSE setitem_posns(setitem_posns_row(heap, arr, heap[arr.posns.rows][key[k]], value[k], 1),
                       arr, key, value, k + 1)

\* the try block of __setitem__ once every term is in the dictionary
setitem_known_terms(heap, arr, key, value) ==
    LET dense == [k \in 1 .. Len(value) |-> tf_to_dense(value[k], heap[arr.term_dict]).val]
        out_of_bounds ==
            \E k \in 1 .. Len(key) :
                \/ heap[arr.term_freqs.rows][key[k]] > Len(heap[arr.term_freqs.mat])
                \/ heap[arr.posns.rows][key[k]] > Len(heap[arr.posns.mat])
        written == setitem_term_freqs(heap, arr.term_freqs, key, dense, 1)
    IN IF out_of_bounds THEN [raised |-> TRUE, heap |-> heap, arr |-> arr]
       ELSE [raised |-> FALSE, heap |-> setitem_posns(written, arr, key, value, 1), arr |-> arr]

\* the terms of the rows in the order _add_new_terms adds them
RECURSIVE add_terms(_, _, _, _)
add_terms(term_dict, value, k, j) ==
    IF k > Len(value) THEN term_dict
    ELSE IF j > Len(value[k].terms) THEN add_terms(term_dict, value, k + 1, 1)
    ELSE add_terms(add_term(term_dict, value[k].terms[j]).term_dict, value, k, j + 1)

\* the largest entry of a matrix, 0 for a matrix without entries
mat_max(mat) ==
    IF Len(mat) = 0 \/ DOMAIN mat[1] = {} THEN 0
    ELSE MaxOf({mat[d][c] : d \in 1 .. Len(mat), c \in DOMAIN mat[1]})

\* _add_new_terms(key, value): both matrices are resized to the number of rows
\* this column selects, then the write is done again
add_new_terms(heap, arr, key, value) ==
    LET extended == [heap EXCEPT ![arr.term_dict] = add_terms(@, value, 1, 1)]
        shape == <<RowViewableMatrix_shape0(extended, arr.term_freqs),
                   Len(extended[arr.term_dict])>>
        resized == RowViewableMatrix_resize(
                       RowViewableMatrix_resize(extended, arr.term_freqs, shape),
                       arr.posns, shape)
        max_lookup == mat_max(resized[arr.posns.mat])
        posns_lookup == resized[arr.posns_lookup]
    IN IF max_lookup > Len(posns_lookup)
       THEN setitem_known_terms(Append(resized, np_resize(posns_lookup, max_lookup + 1)),
                                [arr EXCEPT !.posns_lookup = Len(resized) + 1], key, value)
       ELSE setitem_known_terms(resized, arr, key, value)

\* PostingsArray.__setitem__(key, value)
PostingsArray_setitem(heap, arr, key, value) ==
    IF \E k \in 1 .. Len(value) : tf_to_dense(value[k], heap[arr.term_dict]).raised
    THEN add_new_terms(heap, arr, key, value)
    ELSE setitem_known_terms(heap, arr, key, value)

\* PostingsArray([fill_value] * n) with the empty row as fill value: n rows and
\* no column, an empty dictionary and the empty list in slot 0
PostingsArray_filled(heap, n) ==
    LET empty_mat == [d \in 1 .. n |-> <<>>]
        arange == [d \in 1 .. n |-> d]
        base == Len(heap)
    IN [heap |-> heap \o <<empty_mat, arange, empty_mat, arange, <<(<<>>)>>, <<>>>>,
        val |-> [term_freqs |-> RowViewableMatrix(base + 1, base + 2),
                 posns |-> RowViewableMatrix(base + 3, base + 4),
                 posns_lookup |-> base + 5,
                 term_dict |-> base + 6,
                 avg_doc_length |-> <<0, n>>]]

\* take(indices, allow_fill=True) with a -1 among the indices (0 in this
\* model, the rows being numbered from 1): the rows taken are written into a
\* column of empty rows
PostingsArray_take(heap, arr, indices) ==
    LET kept == {i \in 1 .. Len(indices) : indices[i] # 0}
        key == AscendingSeq(kept)
        read == [k \in 1 .. Len(key) |-> PostingsArray_getitem_row(heap, arr, indices[key[k]])]
        taken == PostingsArray_filled(heap, Len(indices))
        set == PostingsArray_setitem(taken.heap, taken.val, key,
                                     [k \in 1 .. Len(key) |-> read[k].val])
    IN IF \E k \in 1 .. Len(key) : read[k].raised
       THEN [raised |-> TRUE, heap |-> heap, arr |-> arr]
       ELSE set


(***************************************************************************)
(* The column under test for element writes: the indexed column, one view  *)
(* of it (a slice, or the column take() returned), and writes through      *)
(* either                                                                  *)
(***************************************************************************)
\* the number of set-item calls made on a column and its view
MaxWrites == 1

NewTerm == "c"

\* the rows written: over the terms of the corpus and over a term no corpus holds
RowPool ==
    {tokenized_docs(doc) : doc \in {<<>>, <<"a">>, <<"b", "a">>, <<NewTerm>>}}

\* index lists with a fill entry (0) for take
TakeIndices(n) ==
    {<<0>>} \cup {<<i, 0>> : i \in 1 .. n} \cup {<<0, i>> : i \in 1 .. n}

\* what every row of the column reads as
ReadAll(heap, arr) ==
    [i \in 1 .. PostingsArray_len(heap, arr) |-> PostingsArray_getitem_row(heap, arr, i)]

InitSetItem ==
    /\ tokenized \in CopyCorpora
    /\ LET objects == PostingsArray_objects(PostingsArray_index(tokenized),
                                            CHOOSE pba \in OtherIndexes : TRUE)
       IN column = [heap |-> objects.heap, arr |-> objects.arr, view |-> objects.arr,
                    kind |-> "self", keys |-> [d \in 1 .. Len(tokenized) |-> d],
                    recorded |-> [d \in 1 .. Len(tokenized) |-> tokenized_docs(tokenized[d])],
                    writes |-> 0]
    /\ query_result = [op |-> "new"]
    /\ EncoderIdle
    /\ BigramIdle

\* s = a[keys], of the column as it was indexed
SliceView(key) ==
    /\ column.writes = 0
    /\ LET r == PostingsArray_getitem(SubSeq(column.heap, 1, BaseObjects), column.arr, key)
       IN column' = [column EXCEPT !.heap = r.heap, !.view = r.val, !.kind = "slice",
                                   !.keys = key]
    /\ query_result' = [op |-> "slice", before |-> column]
    /\ UNCHANGED <<tokenized, encoder_vars, bigram_vars>>

\* t = a.take(indices, allow_fill=True), of the column as it was indexed
TakeFill(indices) ==
    /\ column.writes = 0
    /\ LET r == PostingsArray_take(SubSeq(column.heap, 1, BaseObjects), column.arr, indices)
       IN /\ column' = IF r.raised THEN column
                       ELSE [column EXCEPT !.heap = r.heap, !.view = r.arr, !.kind = "take",
                                           !.keys = indices]
          /\ query_result' = [op |-> "take", raised |-> r.raised, before |-> column]
    /\ UNCHANGED <<tokenized, encoder_vars, bigram_vars>>

\* target[i] = row, the target being the column or its view
SetItemRow(through_view, i, row) ==
    /\ column.writes < MaxWrites
    /\ through_view => column.kind # "self"
    /\ LET target == IF through_view THEN column.view ELSE column.arr
           r == PostingsArray_setitem(column.heap, target, <<i>>, <<row>>)
           doc == IF ~through_view THEN i
                  ELSE IF column.kind = "slice" THEN column.keys[i] ELSE 0
       IN /\ i \in 1 .. PostingsArray_len(column.heap, target)
          /\ column' = [column EXCEPT !.heap = r.heap,
                                      !.arr = IF through_view THEN @ ELSE r.arr,
                                      !.view = IF through_view \/ column.kind = "self"
                                               THEN r.arr ELSE @,
                                      !.recorded = IF r.raised \/ doc = 0 THEN @
                                                   ELSE [@ EXCEPT ![doc] = row],
                                      !.writes = @ + 1]
          /\ query_result' = [op |-> "setitem", through_view |-> through_view, key |-> i,
                              doc |-> doc, row |-> row, raised |-> r.raised,
                              before |-> column]
    /\ UNCHANGED <<tokenized, encoder_vars, bigram_vars>>

NextSetItem ==
    \/ \E key \in SliceKeys(Len(tokenized)) : SliceView(key)
    \/ \E indices \in TakeIndices(Len(tokenized)) : TakeFill(indices)
    \/ \E through_view \in BOOLEAN, i \in 1 .. 2, row \in RowPool : SetItemRow(through_view, i, row)

SpecSetItem == InitSetItem /\ [][NextSetItem]_vars

\* a row read before and after a write: both raise, or both give equal rows
RowSame(before, after) ==
    /\ before.raised = after.raised
    /\ ~before.raised => PostingsRow_eq(before.val, after.val)

\* the rows of arr, other than those in skip, read the same in both heaps
RowsUnchanged(before, after, arr, skip) ==
    \A i \in 1 .. PostingsArray_len(before, arr) :
        i \notin skip => RowSame(PostingsArray_getitem_row(before, arr, i),
                                 PostingsArray_getitem_row(after, arr, i))

\* the column the last set-item was called on, as it was before the call
WriteTarget == IF query_result.through_view THEN query_result.before.view
               ELSE query_result.before.arr

\* the rows of the parent column and of the view that show the written document
WrittenInParent == IF query_result.doc = 0 THEN {} ELSE {query_result.doc}

WrittenInView ==
    IF query_result.before.kind = "take"
    THEN (IF query_result.through_view THEN {query_result.key} ELSE {})
    ELSE {i \in 1 .. Len(query_result.before.keys) :
             query_result.before.keys[i] = query_result.doc}

\* C24: a set-item that brings a new term, on any column and so on a sliced
\* view that selects fewer rows than the matrix holds, only extends the
\* dictionary and the column count of the matrices: the matrices keep all their
\* rows, the write completes, and every other document of this column and of
\* every column sharing the matrices reads back unchanged.
C24_NewTermWriteKeepsRows ==
    LET before == query_result.before
        dict_before == before.heap[WriteTarget.term_dict]
        dict_after == column.heap[WriteTarget.term_dict]
        tf_before == before.heap[WriteTarget.term_freqs.mat]
        tf_after == column.heap[WriteTarget.term_freqs.mat]
        posns_before == before.heap[WriteTarget.posns.mat]
        posns_after == column.heap[WriteTarget.posns.mat]
    IN (query_result.op = "setitem" /\ tf_to_dense(query_result.row, dict_before).raised)
       => /\ ~query_result.raised
          /\ dict_after = add_terms(dict_before, <<query_result.row>>, 1, 1)
          /\ Len(tf_after) = Len(tf_before)
          /\ Len(posns_after) = Len(posns_before)
          /\ \A d \in 1 .. Len(tf_after) : DOMAIN tf_after[d] = 0 .. Len(dict_after) - 1
          /\ RowsUnchanged(before.heap, column.heap, before.arr, WrittenInParent)
          /\ RowsUnchanged(before.heap, column.heap, before.view, WrittenInView)

\* the terms of a dictionary
TermsOf(term_dict) == {term_dict[i] : i \in 1 .. Len(term_dict)}

\* C27: slot 0 of the posns lookup table always holds the empty position list:
\* after set-item and after take with fill, positions(term) is empty for every
\* (document, term) pair without recorded positions, and the positions of the
\* documents that were not written are unchanged.
C27_SlotZeroHoldsEmptyList ==
    LET before == query_result.before
    IN /\ (query_result.op = "setitem" /\ ~query_result.raised)
          => /\ \A t \in TermsOf(column.heap[column.arr.term_dict]) :
                   LET posns == PostingsArray_positions(column.heap, column.arr, t)
                   IN /\ ~posns.raised
                      /\ \A d \in 1 .. Len(column.recorded) :
                            t \notin DOMAIN column.recorded[d].posns => posns.val[d] = <<>>
             /\ \A t \in TermsOf(before.heap[before.arr.term_dict]) :
                   LET was == PostingsArray_positions(before.heap, before.arr, t)
                       posns == PostingsArray_positions(column.heap, column.arr, t)
                   IN \A d \in 1 .. Len(column.recorded) :
                         (d # query_result.doc /\ ~was.raised)
                         => (~posns.raised /\ posns.val[d] = was.val[d])
       /\ (query_result.op = "take" /\ ~query_result.raised)
          => \A t \in TermsOf(column.heap[column.view.term_dict]) :
                LET posns == PostingsArray_positions(column.heap, column.view, t)
                IN /\ ~posns.raised
                   /\ \A i \in 1 .. Len(column.keys) :
                         column.keys[i] = 0 => posns.val[i] = <<>>

\* set-item of a row whose terms are all in the dictionary of the target
SetItemKnown(through_view, i, row) ==
    /\ ~tf_to_dense(row, column.heap[(IF through_view THEN column.view
                                      ELSE column.arr).term_dict]).raised
    /\ SetItemRow(through_view, i, row)

\* slices of the indexed column and writes of rows over its dictionary
NextView ==
    \/ \E key \in SliceKeys(Len(tokenized)) : SliceView(key)
    \/ \E through_view \in BOOLEAN, i \in 1 .. 2, row \in RowPool :
          SetItemKnown(through_view, i, row)

SpecView == InitSetItem /\ [][NextView]_vars

\* C29: a slice is a view: for s = a[keys], element i of s equals element
\* keys[i] of a and len(s) is the number of rows selected; after s[i] = row with
\* the terms of row in the dictionary, a reads back row at keys[i], while len(a)
\* and every other element of a are unchanged.
C29_SliceIsView ==
    LET before == query_result.before
    IN /\ query_result.op = "slice"
          => /\ PostingsArray_len(column.heap, column.view) = Len(column.keys)
             /\ \A i \in 1 .. Len(column.keys) :
                   LET through == PostingsArray_getitem_row(column.heap, column.view, i)
                       direct == PostingsArray_getitem_row(column.heap, column.arr,
                                                           column.keys[i])
                   IN ~through.raised /\ ~direct.raised
                      /\ PostingsRow_eq(through.val, direct.val)
       /\ (query_result.op = "setitem" /\ query_result.through_view
           /\ before.kind = "slice"
           /\ ~tf_to_dense(query_result.row, before.heap[before.view.term_dict]).raised)
          => LET read == PostingsArray_getitem_row(column.heap, column.arr,
                                                   before.keys[query_result.key])
             IN /\ ~query_result.raised
                /\ ~read.raised
                /\ PostingsRow_eq(read.val, query_result.row)
                /\ PostingsArray_len(column.heap, column.arr)
                      = PostingsArray_len(before.heap, before.arr)
                /\ RowsUnchanged(before.heap, column.heap, before.arr,
                                 {before.keys[query_result.key]})

\* a write through a slice that selects only the second of two documents
C29_Witness ==
    /\ query_result.op = "setitem"
    /\ query_result.through_view
    /\ ~query_result.raised
    /\ query_result.before.kind = "slice"
    /\ Len(tokenized) = 2
    /\ query_result.before.keys = <<2>>
    /\ query_result.key = 1
    /\ query_result.row.terms # <<>>
    /\ ~PostingsRow_eq(PostingsArray_getitem_row(query_result.before.heap,
                                                 query_result.before.arr, 2).val,
                       query_result.row)
    /\ PostingsRow_eq(PostingsArray_getitem_row(column.heap, column.arr, 2).val,
                      query_result.row)

\* the positions staged for (term_id, doc_id) by the add_posns calls
StagedPosns(b, term_id, doc_id) ==
    IF term_id \in DOMAIN b.staged
    THEN {b.staged[term_id][k][2] :
             k \in {i \in 1 .. Len(b.staged[term_id]) : b.staged[term_id][i][1] = doc_id}}
    ELSE {}

\* every term's staged list ascends by document and, within a document, by position
StagedAscending(b) ==
    \A t \in DOMAIN b.staged :
        \A k \in 1 .. Len(b.staged[t]) - 1 :
            \/ b.staged[t][k][1] < b.staged[t][k + 1][1]
            \/ b.staged[t][k][1] = b.staged[t][k + 1][1]
               /\ b.staged[t][k][2] < b.staged[t][k + 1][2]

\* C25: on the index built from add_posns calls in ascending document order,
\* positions(term, doc) returns exactly the positions added for (term, doc), in
\* ascending order, and the empty array when the document has no posting for
\* the term; a single-token document yields exactly position 0.
C25_PositionsReturnsAddedPositions ==
    (bigram_result.op = "positions" /\ StagedAscending(lhs_posns)
     /\ bigram_result.doc_id <= lhs_posns.max_doc_id)
    => /\ ~bigram_result.raised
       /\ bigram_result.val
             = AscendingSeq(StagedPosns(lhs_posns, bigram_result.term_id,
                                        bigram_result.doc_id))

(***************************************************************************)
(* The field layouts of RoaringishEncoder: every key_bits up to 63 whose    *)
(* max_payload, 2^payload_lsb_bits - 1, is below 2^31                      *)
(***************************************************************************)
LayoutKeyBits == 4 .. (Bits64 - 1)

\* positions in the first four windows of a layout, as far as the window index
\* fits the payload_msb field
LayoutPosns(kb) ==
    LET enc == RoaringishEncoder(kb)
        lsb == enc.payload_lsb_bits
    IN {p \in {0, 1, lsb - 1, lsb, lsb + 1, 2 * lsb, 3 * lsb + 1} :
           enc.payload_msb_bits >= 2 \/ (p \div lsb) < Pow2(enc.payload_msb_bits)}

\* one key with one or two positions, ascending
LayoutInputs(kb) ==
    {<<(<<k, p1>>)>> : k \in KeyPool, p1 \in LayoutPosns(kb)}
    \cup {<<(<<pq[1], pq[2]>>), <<pq[1], pq[3]>>>> :
             pq \in {t \in KeyPool \X LayoutPosns(kb) \X LayoutPosns(kb) : t[2] < t[3]}}

InitLayout ==
    /\ key_bits \in LayoutKeyBits
    /\ payload \in LayoutInputs(key_bits)
    /\ encoded = <<>>
    /\ enc_result = [op |-> "new"]
    /\ BigramIdle
    /\ ColumnIdle

\* RoaringishEncoder(key_bits).encode(payload, keys)
EncodeLayout ==
    /\ enc_result.op = "new"
    /\ encoded' = encode(RoaringishEncoder(key_bits), payload)
    /\ enc_result' = [op |-> "encode", raised |-> FALSE]
    /\ UNCHANGED <<key_bits, payload, bigram_vars, column_vars>>

NextLayout == EncodeLayout

SpecLayout == InitLayout /\ [][NextLayout]_vars

\* C26: for every key_bits from 1 to 63, odd payload widths included, key_mask,
\* payload_msb_mask and payload_lsb_mask are pairwise disjoint and cover all 64
\* bits, and encode writes the window index of each position inside
\* payload_msb_mask and its bit inside payload_lsb_mask: for the word of a
\* position, payload_msb is position div payload_lsb_bits and bit
\* position mod payload_lsb_bits of payload_lsb is set.
C26_LayoutFieldsHoldWindowAndBit ==
    LET enc == RoaringishEncoder(key_bits)
    IN key_bits \in LayoutKeyBits
       => /\ enc.key_mask \cap enc.payload_msb_mask = {}
          /\ enc.key_mask \cap enc.payload_lsb_mask = {}
          /\ enc.payload_msb_mask \cap enc.payload_lsb_mask = {}
          /\ enc.key_mask \cup enc.payload_msb_mask \cup enc.payload_lsb_mask = AllBits
          /\ enc_result.op = "encode"
             => \A i \in 1 .. Len(payload) :
                   \E k \in 1 .. Len(encoded) :
                      /\ keys(enc, encoded[k]) = U64(payload[i][1])
                      /\ payload_msb(enc, encoded[k])
                            = U64(payload[i][2] \div enc.payload_lsb_bits)
                      /\ (payload[i][2] % enc.payload_lsb_bits)
                            \in payload_lsb(enc, encoded[k])

\* the adjacent pairs whose two positions lie in one 16-position window
WindowPairs == AdjacentPairs \ BoundaryPairs

\* the rhs word of document d and window w holding the rhs bits of the pairs
\* matched in that window and no other position bit
MatchedWord(d, w) ==
    BitOr(BitOr(Shl(U64(d), 32), Shl(U64(w), 16)),
          {(dp[2] + 1) % 16 : dp \in {x \in WindowPairs : x[1] = d /\ x[2] \div 16 = w}})

\* C30: inner_bigram_match returns as count the number of pairs (position p of
\* lhs, position p + 1 of rhs) in the same document and the same 16-position
\* window, for every bit offset, offset 0 (lhs at 0, rhs at 1) included, and
\* the rhs words it returns contain exactly the matched rhs bits.
C30_InnerMatchCountsEveryOffset ==
    bigram_result.op = "inner_bigram_match"
    => /\ ~bigram_result.raised
       /\ bigram_result.count = Cardinality(WindowPairs)
       /\ {bigram_result.rhs_next[i] : i \in 1 .. Len(bigram_result.rhs_next)}
             = {MatchedWord(dp[1], dp[2] \div 16) : dp \in WindowPairs}
       /\ Len(bigram_result.rhs_next)
             = Cardinality({<<dp[1], dp[2] \div 16>> : dp \in WindowPairs})

\* C28: the result of build_index_from_tokenizer does not depend on batch_size:
\* for any two batch sizes the call returns alike, with the same term ids in
\* first-seen order, the same doc_lens vector and the same avg_doc_length, and
\* every document id in the postings is the index of the document in the array.
C28_BatchSizeDoesNotMatter ==
    query_result.op = "build_index_from_tokenizer"
    => /\ \A batch_size \in BatchSizes :
             LET other == build_index_from_tokenizer(tokenized, batch_size)
             IN /\ other.raised = column.raised
                /\ other.term_dict = column.term_dict
                /\ other.doc_lens = column.doc_lens
                /\ other.avg_doc_length = column.avg_doc_length
       /\ ~column.raised
          => \A k \in 1 .. Len(column.bit_posns) :
                LET term_id == column.bit_posns[k][1]
                    doc_id == column.bit_posns[k][2]
                    posn == column.bit_posns[k][3]
                IN /\ doc_id + 1 \in 1 .. Len(tokenized)
                   /\ posn + 1 \in 1 .. Len(tokenized[doc_id + 1])
                   /\ column.term_dict[term_id + 1] = tokenized[doc_id + 1][posn + 1]

====
